---- MODULE Spec2Model ----
(***************************************************************************)
(* The course-builder workflow: the LangGraph state machine of             *)
(* graph/course_builder_graph.py, its stage functions (agents/, nodes/),   *)
(* the validators and the human review checkpoints.                        *)
(*                                                                         *)
(* A Python dict key that is absent is represented by the default every    *)
(* reader passes to .get(): "" for a feedback text, <<>> for a list,       *)
(* "None" for an approval status.  None/absent artifacts are NoneValue.    *)
(* Floats are exact rationals [n, d]; no comparison of the code is on a    *)
(* rounding boundary for the values the model produces.                    *)
(***************************************************************************)
EXTENDS Integers, Sequences, FiniteSets, TLC

VARIABLES
    pc,                  \* the node the graph runs next, or "END"
    prev,                \* the node the graph ran last, "START" before the first
    interrupted,         \* the graph stopped after an interrupt_after node
    waiting,             \* a review node is blocked in get_interactive_feedback
    research_findings,   \* state["research_findings"]
    module_structure,    \* state["module_structure"]
    xdp_content,         \* state["xdp_content"]
    course_content,      \* state["course_content"]
    quizzes,             \* state["quizzes"]
    course_metadata,     \* state["course_metadata"] (set by finalize_course)
    approval_status,     \* state["approval_status"]
    human_feedback,      \* state["human_feedback"]
    validation_results,  \* state["validation_results"]
    errors,              \* state["errors"]
    current_step,        \* state["current_step"]
    hist,                \* history of the run, read only by the properties
    executor,            \* the ThreadPoolExecutor of a stage and its futures
    video_transcripts,   \* state["video_transcripts"]
    progress_log,        \* the lines of <thread_id>_progress.jsonl
    request              \* state["number_of_modules"] and the other inputs of the run

vars == <<pc, prev, interrupted, waiting, research_findings, module_structure,
          xdp_content, course_content, quizzes, course_metadata,
          approval_status, human_feedback, validation_results, errors,
          current_step, hist, executor, video_transcripts, progress_log,
          request>>

\* What a fan-out works with besides the workflow state.
pool == <<executor, video_transcripts, progress_log>>

\* No fan-out is under way.
NoExecutor ==
    [stage |-> "none", tasks |-> <<>>, responses |-> <<>>, status |-> <<>>,
     collected |-> <<>>, joined |-> FALSE]

PoolIdle ==
    /\ executor = NoExecutor
    /\ video_transcripts = <<>>
    /\ progress_log = <<>>

artifacts == <<research_findings, module_structure, xdp_content,
               course_content, quizzes, course_metadata>>

(***************************************************************************)
(* Bounds of the model and inputs of a run.                                *)
(***************************************************************************)
\* Entries of state["errors"] a run may accumulate.
MaxErrors == 1
\* state["number_of_modules"], the number of modules the user asked for.
NumberOfModules == 2
\* The inputs of a run, as collect_user_input leaves them in the state.
CourseRequest(modules, graded, practice, lab) ==
    [number_of_modules |-> modules,
     graded_quizzes_per_module |-> graded,
     practice_quizzes_per_module |-> practice,
     needs_lab_module |-> lab]
\* The course a run of the model asks for unless it says otherwise.
RequestedCourse == CourseRequest(NumberOfModules, 1, 0, FALSE)
\* state["number_of_modules"], state["graded_quizzes_per_module"], ...
Parameters == request

(***************************************************************************)
(* Values.                                                                 *)
(***************************************************************************)
NoneValue == [is_none |-> TRUE]

Truthy(artifact) == artifact # NoneValue

Checkpoints == {"structure", "content", "quizzes"}

\* Python's None, True and False as approval_status values.
ApprovalValues == {"None", "True", "False"}

Min(a, b) == IF a <= b THEN a ELSE b
Max(a, b) == IF a >= b THEN a ELSE b

\* Exact rationals standing for the floats of the validators.
\* Each operator binds its arguments to their values (p \in {<<a, b>>}) before
\* it uses them, so that an argument is evaluated once.
RECURSIVE GCD(_, _)
GCD(a, b) == IF b = 0 THEN a ELSE GCD(b, a % b)
\* The fraction n/d in lowest terms.
R(n, d) ==
    CHOOSE r \in {[n |-> p[1] \div GCD(p[2], p[1]), d |-> p[2] \div GCD(p[2], p[1])] :
                     p \in {<<n, d>>}} : TRUE
RAdd(a, b) ==
    CHOOSE r \in {R(p[1].n * p[2].d + p[2].n * p[1].d, p[1].d * p[2].d) :
                     p \in {<<a, b>>}} : TRUE
RMul(a, b) ==
    CHOOSE r \in {R(p[1].n * p[2].n, p[1].d * p[2].d) : p \in {<<a, b>>}} : TRUE
RDivInt(a, k) == CHOOSE r \in {R(p[1].n, p[1].d * p[2]) : p \in {<<a, k>>}} : TRUE
RLess(a, b) == \E p \in {<<a, b>>} : p[1].n * p[2].d < p[2].n * p[1].d
RGeq(a, b) == ~RLess(a, b)
RMin(a, b) ==
    CHOOSE r \in {IF RLess(p[2], p[1]) THEN p[2] ELSE p[1] : p \in {<<a, b>>}} : TRUE
Zero == R(0, 1)
One == R(1, 1)

\* A line of the progress file: ProgressTracker.log_step(step_name, status).
LogEntry(step, status) == [step |-> step, status |-> status]

\* dict.get(key, default)
Get(dict, key, default) == IF key \in DOMAIN dict THEN dict[key] ELSE default

RECURSIVE SumSeq(_)
SumSeq(s) ==
    CHOOSE r \in {IF t = <<>> THEN 0 ELSE Head(t) + SumSeq(Tail(t)) : t \in {s}} : TRUE

RECURSIVE Flatten(_)
Flatten(ss) ==
    CHOOSE r \in {IF t = <<>> THEN <<>> ELSE Head(t) \o Flatten(Tail(t)) : t \in {ss}} : TRUE

\* Feedback texts the human may type, and what str.lower() makes of each.
FeedbackTexts == {"Approved", "Please REJECT this"}
lower(text) ==
    CASE text = "Approved" -> "approved"
      [] text = "Please REJECT this" -> "please reject this"
      [] OTHER -> text
\* "reject" in text, for the lower-cased texts above.
ContainsReject(text) == text \in {"please reject this"}

\* Suggestion lists the human may give.
SuggestionLists == {<<>>, <<"add more examples">>}

\* The feedback the human submits, feedback_data[review_type]: an approval
\* carries no suggestions, a rejection a text and a (possibly empty) list of
\* suggestions, and a feedback file may leave approval_status null with any text.
Decisions ==
    {d \in [approval_status : ApprovalValues, feedback : FeedbackTexts,
            suggestions : SuggestionLists] :
        /\ d.approval_status = "True" => d.feedback = "Approved"
        /\ d.approval_status = "False" => d.feedback = "Please REJECT this"
        /\ d.approval_status # "False" => d.suggestions = <<>>}
(***************************************************************************)
(* Artifacts and what the collaborator (the LLM chain) may return.         *)
(***************************************************************************)
\* A lesson of the module structure; module_id 0 stands for "key not set".
Lesson(j) == [lesson_name |-> j, module_id |-> 0]

Module(i, nLessons, graded, practice) ==
    [module_id |-> i,
     lessons |-> [j \in 1..nLessons |-> Lesson(j)],
     quiz_plan |-> [graded |-> graded, practice |-> practice],
     is_lab_module |-> FALSE]

\* The fallback structure of module_structure_agent: range(3) lessons per module.
FallbackLessons == 3
FallbackStructure ==
    LET base == [i \in 1..Parameters.number_of_modules |->
                    Module(i, FallbackLessons,
                           Parameters.graded_quizzes_per_module,
                           Parameters.practice_quizzes_per_module)]
        lab == [Module(Parameters.number_of_modules + 1, 1, 0, 1)
                    EXCEPT !.is_lab_module = TRUE]
    IN  [modules |-> IF Parameters.needs_lab_module
                     THEN Append(base, lab) ELSE base]

\* A structure the chain parsed from the collaborator's answer: one module per
\* entry of lessonCounts, with the requested quiz plan.
LLMStructure(lessonCounts) ==
    [modules |-> [i \in DOMAIN lessonCounts |->
                    Module(i, lessonCounts[i],
                           Parameters.graded_quizzes_per_module,
                           Parameters.practice_quizzes_per_module)]]

\* create_json_parser: {} for an answer that is unparsable or empty.
EmptyDict == [modules |-> <<>>]

\* Answers of the structure chain: nothing usable, every module with a lesson,
\* the last module without lessons, no module with lessons.
StructureResponses ==
    {EmptyDict,
     LLMStructure([i \in 1..Parameters.number_of_modules |-> 1]),
     LLMStructure([i \in 1..Parameters.number_of_modules |->
                      IF i = Parameters.number_of_modules THEN 0 ELSE 1]),
     LLMStructure([i \in 1..Parameters.number_of_modules |-> 0])}

\* How a call of a stage may end: normally, with the collaborator raising
\* (GeminiLLM._generate), or with ResultsSaver raising after the artifact is set.
StageOutcomes == {"ok", "llm_error", "save_error"}
(***************************************************************************)
(* nodes/validation_agent.py                                               *)
(***************************************************************************)
Issue(kind, detail) == [issue |-> kind, detail |-> detail]

SeqOfSet(seq, keep) ==
    LET F[i \in 0..Len(seq)] ==
            IF i = 0 THEN <<>>
            ELSE IF i \in keep THEN Append(F[i - 1], seq[i]) ELSE F[i - 1]
    IN  F[Len(seq)]

\* The structure validator with a module-count mismatch that invalidates.
validate_module_structure_count_checked(structure, params) ==
    IF ~Truthy(structure)
    THEN [is_valid |-> FALSE, quality_score |-> Zero,
          issues |-> <<Issue("Module structure is missing", <<>>)>>,
          recommendations |-> <<>>]
    ELSE
    LET modules == structure.modules
        countIssue ==
            IF Len(modules) # params.number_of_modules
            THEN <<Issue("Expected modules", <<params.number_of_modules, Len(modules)>>)>>
            ELSE <<>>
        withLessons == {i \in DOMAIN modules : Len(modules[i].lessons) > 0}
        noLessons == DOMAIN modules \ withLessons
        planMismatch == {i \in DOMAIN modules :
                            modules[i].quiz_plan.graded # params.graded_quizzes_per_module}
        planIssues == [k \in DOMAIN SeqOfSet(modules, planMismatch) |->
                          Issue("quiz plan doesn't match requirements",
                                <<SeqOfSet(modules, planMismatch)[k].module_id>>)]
        noLessonIds == [k \in DOMAIN SeqOfSet(modules, noLessons) |->
                          SeqOfSet(modules, noLessons)[k].module_id]
        lessonIssue ==
            IF noLessons # {} THEN <<Issue("Modules without lessons", noLessonIds)>>
            ELSE <<>>
        \* += 0.2 for every module that has lessons
        summed == R(2 * Cardinality(withLessons), 10)
        normalized == RMin(RDivInt(summed, Max(Len(modules), 1)), One)
        score == IF RLess(Zero, normalized)
                 THEN RAdd(R(5, 10), RMul(normalized, R(5, 10)))
                 ELSE normalized
    IN  [is_valid |-> noLessons = {} /\ countIssue = <<>>,
         quality_score |-> score,
         issues |-> countIssue \o planIssues \o lessonIssue,
         recommendations |->
            IF RLess(score, R(7, 10))
            THEN <<"Consider reviewing module structure for better organization">>
            ELSE <<>>]

validate_module_structure(structure, params) ==
    IF ~Truthy(structure)
    THEN [is_valid |-> FALSE, quality_score |-> Zero,
          issues |-> <<Issue("Module structure is missing", <<>>)>>,
          recommendations |-> <<>>]
    ELSE
    LET modules == structure.modules
        countIssue ==
            IF Len(modules) # params.number_of_modules
            THEN <<Issue("Expected modules", <<params.number_of_modules, Len(modules)>>)>>
            ELSE <<>>
        withLessons == {i \in DOMAIN modules : Len(modules[i].lessons) > 0}
        noLessons == DOMAIN modules \ withLessons
        planMismatch == {i \in DOMAIN modules :
                            modules[i].quiz_plan.graded # params.graded_quizzes_per_module}
        planIssues == [k \in DOMAIN SeqOfSet(modules, planMismatch) |->
                          Issue("quiz plan doesn't match requirements",
                                <<SeqOfSet(modules, planMismatch)[k].module_id>>)]
        noLessonIds == [k \in DOMAIN SeqOfSet(modules, noLessons) |->
                          SeqOfSet(modules, noLessons)[k].module_id]
        lessonIssue ==
            IF noLessons # {} THEN <<Issue("Modules without lessons", noLessonIds)>>
            ELSE <<>>
        \* += 0.2 for every module that has lessons
        summed == R(2 * Cardinality(withLessons), 10)
        normalized == RMin(RDivInt(summed, Max(Len(modules), 1)), One)
        score == IF RLess(Zero, normalized)
                 THEN RAdd(R(5, 10), RMul(normalized, R(5, 10)))
                 ELSE normalized
    IN  [is_valid |-> noLessons = {},
         quality_score |-> score,
         issues |-> countIssue \o planIssues \o lessonIssue,
         recommendations |->
            IF RLess(score, R(7, 10))
            THEN <<"Consider reviewing module structure for better organization">>
            ELSE <<>>]

\* A generated lesson: the text fields are given by their lengths, the lists
\* by their sizes.
required_fields == <<"introduction", "main_content", "summary">>
RequiredFields == {required_fields[k] : k \in DOMAIN required_fields}

\* The lesson score with a field of exactly 50 characters counted as long.
lesson_score_inclusive(lesson) ==
    LET long == Cardinality({f \in RequiredFields : lesson[f] >= 50})
    IN  R(33 * long
          + (IF lesson.examples > 0 THEN 10 ELSE 0)
          + (IF lesson.practice_exercises > 0 THEN 10 ELSE 0), 100)

lesson_score(lesson) ==
    LET long == Cardinality({f \in RequiredFields : lesson[f] > 50})
    IN  R(33 * long
          + (IF lesson.examples > 0 THEN 10 ELSE 0)
          + (IF lesson.practice_exercises > 0 THEN 10 ELSE 0), 100)

RECURSIVE RSum(_)
RSum(scores) ==
    CHOOSE r \in {IF t = <<>> THEN Zero ELSE RAdd(Head(t), RSum(Tail(t))) :
                     t \in {scores}} : TRUE

validate_content(content) ==
    IF content = <<>>
    THEN [is_valid |-> FALSE, quality_score |-> Zero, lesson_scores |-> <<>>,
          flagged_lessons |-> <<>>,
          issues |-> <<Issue("Course content is missing", <<>>)>>,
          recommendations |-> <<>>]
    ELSE
    LET scores == [i \in DOMAIN content |-> lesson_score(content[i])]
        flagged == {i \in DOMAIN content : RLess(scores[i], R(8, 10))}
        \* one issue for every required field that is empty or absent
        missing == [i \in DOMAIN content |->
                      LET empty == SeqOfSet(required_fields,
                                      {k \in DOMAIN required_fields :
                                          content[i][required_fields[k]] = 0})
                      IN  [k \in DOMAIN empty |->
                              Issue(empty[k], content[i].lesson_id)]]
        quality == RDivInt(RSum(scores), Len(content))
    IN  [is_valid |-> RGeq(quality, R(8, 10)),
         quality_score |-> quality,
         lesson_scores |-> [i \in DOMAIN content |->
                              [lesson_id |-> content[i].lesson_id, score |-> scores[i]]],
         flagged_lessons |-> [k \in DOMAIN SeqOfSet(content, flagged) |->
                                SeqOfSet(content, flagged)[k].lesson_id],
         issues |-> Flatten(missing),
         recommendations |->
            IF RLess(quality, R(8, 10))
            THEN <<"Some lessons need improvement in content quality">>
            ELSE <<>>]
\* A question of a quiz: the question text by its length; learning_objective
\* "" stands for no objective.
\* The score of a question with weights that add up to 1.
question_score_to_one(q) ==
    (IF q.question > 20 THEN 40 ELSE 0)
    + (IF q.correct_answer THEN 40 ELSE 0)
    + (IF q.explanation THEN 20 ELSE 0)

question_score(q) ==
    (IF q.question > 20 THEN 10 ELSE 0)
    + (IF q.correct_answer THEN 10 ELSE 0)
    + (IF q.explanation THEN 5 ELSE 0)

validate_quizzes(quizList, findings) ==
    IF quizList = <<>>
    THEN [is_valid |-> FALSE, quality_score |-> Zero, objective_coverage |-> Zero,
          quiz_scores |-> <<>>, flagged_quizzes |-> <<>>,
          issues |-> <<Issue("Quizzes are missing", <<>>)>>,
          recommendations |-> <<>>]
    ELSE
    LET withQuestions == {i \in DOMAIN quizList : quizList[i].questions # <<>>}
        scored == SeqOfSet(quizList, withQuestions)
        empty == SeqOfSet(quizList, DOMAIN quizList \ withQuestions)
        quiz_score(quiz) ==
            RMin(RDivInt(R(SumSeq([k \in DOMAIN quiz.questions |->
                                      question_score(quiz.questions[k])]), 100),
                         Len(quiz.questions)), One)
        allQuestions == Flatten([i \in DOMAIN scored |-> scored[i].questions])
        total_questions == Len(allQuestions)
        valid_questions == Cardinality({k \in DOMAIN allQuestions :
                                           allQuestions[k].question > 20})
        objectives_covered == {allQuestions[k].learning_objective :
                                  k \in DOMAIN allQuestions} \ {""}
        quality == IF total_questions > 0
                   THEN R(valid_questions, total_questions) ELSE Zero
        coverage ==
            IF Truthy(findings)
            THEN IF Len(findings.learning_objectives) > 0
                 THEN R(Cardinality(objectives_covered),
                        Len(findings.learning_objectives))
                 ELSE R(5, 10)
            ELSE Zero
        flagged == {i \in DOMAIN scored : RLess(quiz_score(scored[i]), R(8, 10))}
    IN  [is_valid |-> /\ total_questions > 0
                      /\ RGeq(quality, R(8, 10)) /\ RGeq(coverage, R(8, 10)),
         quality_score |-> quality,
         objective_coverage |-> coverage,
         quiz_scores |-> [i \in DOMAIN scored |->
                            [quiz_id |-> scored[i].quiz_id,
                             score |-> quiz_score(scored[i])]],
         flagged_quizzes |-> [k \in DOMAIN SeqOfSet(scored, flagged) |->
                                SeqOfSet(scored, flagged)[k].quiz_id],
         issues |-> [k \in DOMAIN empty |->
                        Issue("Quiz has no questions", empty[k].quiz_id)],
         recommendations |->
            IF RLess(quality, R(8, 10)) \/ RLess(coverage, R(8, 10))
            THEN <<"Some quizzes need improvement in quality or objective coverage">>
            ELSE <<>>]

\* The update that merges the validity of a previous pass into the new result.
update_validation_results_merged(results, validation_type, result) ==
    [k \in DOMAIN results \cup {validation_type} |->
        IF k # validation_type THEN results[k]
        ELSE IF k \in DOMAIN results
             THEN [result EXCEPT !.is_valid = @ /\ results[k].is_valid]
             ELSE result]

\* update_validation_results: validation_results[validation_type] = validator(state)
update_validation_results(results, validation_type, result) ==
    [k \in DOMAIN results \cup {validation_type} |->
        IF k = validation_type THEN result ELSE results[k]]

(***************************************************************************)
(* graph/course_builder_graph.py: the routers and the edges.               *)
(***************************************************************************)
NoValidation == [missing |-> TRUE]

route_after_structure_validation(results) ==
    LET validation == Get(results, "module_structure", NoValidation)
        quality_score == Get(validation, "quality_score", Zero)
        is_valid == Get(validation, "is_valid", FALSE)
    IN  IF RGeq(quality_score, R(7, 10)) /\ is_valid THEN "pass" ELSE "review"

\* The content router without its check of the flagged lessons.
route_after_content_validation_unflagged(results) ==
    LET validation == Get(results, "content", NoValidation)
        quality_score == Get(validation, "quality_score", Zero)
    IN  IF RGeq(quality_score, R(8, 10)) THEN "pass" ELSE "review"

route_after_content_validation(results) ==
    LET validation == Get(results, "content", NoValidation)
        quality_score == Get(validation, "quality_score", Zero)
        flagged_lessons == Get(validation, "flagged_lessons", <<>>)
    IN  IF RGeq(quality_score, R(8, 10)) /\ Len(flagged_lessons) = 0
        THEN "pass" ELSE "review"

\* The quiz router letting a validation that scored no quiz pass.
route_after_quiz_validation_unscored_pass(results) ==
    LET validation == Get(results, "quizzes", NoValidation)
        quality_score == Get(validation, "quality_score", Zero)
        objective_coverage == Get(validation, "objective_coverage", Zero)
    IN  IF Get(validation, "quiz_scores", <<>>) = <<>> THEN "pass"
        ELSE IF RGeq(quality_score, R(8, 10)) /\ RGeq(objective_coverage, R(8, 10))
        THEN "pass" ELSE "review"

route_after_quiz_validation(results) ==
    LET validation == Get(results, "quizzes", NoValidation)
        quality_score == Get(validation, "quality_score", Zero)
        objective_coverage == Get(validation, "objective_coverage", Zero)
    IN  IF RGeq(quality_score, R(8, 10)) /\ RGeq(objective_coverage, R(8, 10))
        THEN "pass" ELSE "review"

\* The review router with its two tests in the other order.
route_after_review_text_first(checkpoint, approvals, feedbacks) ==
    LET status == approvals[checkpoint]
        feedback == lower(feedbacks[checkpoint])
    IN  IF status = "False" \/ ContainsReject(feedback) THEN "reject"
        ELSE IF status = "True" THEN "approve"
        ELSE "continue"

\* route_after_structure_review, route_after_content_review and
\* route_after_quiz_review are the same function of their checkpoint.
route_after_review(checkpoint, approvals, feedbacks) ==
    LET status == approvals[checkpoint]
        feedback == lower(feedbacks[checkpoint])
    IN  IF status = "True" THEN "approve"
        ELSE IF status = "False" \/ ContainsReject(feedback) THEN "reject"
        ELSE "continue"

route_after_structure_review(approvals, feedbacks) ==
    route_after_review("structure", approvals, feedbacks)
route_after_content_review(approvals, feedbacks) ==
    route_after_review("content", approvals, feedbacks)
route_after_quiz_review(approvals, feedbacks) ==
    route_after_review("quizzes", approvals, feedbacks)

\* workflow.add_edge
Edges ==
    [collect_user_input |-> "researcher_agent",
     researcher_agent |-> "module_structure_agent",
     module_structure_agent |-> "validate_module_structure",
     xdp_agent |-> "course_content_agent",
     course_content_agent |-> "validate_content",
     quiz_curator_agent |-> "validate_quizzes",
     finalize_course |-> "END"]

\* The conditional edges with the rejection of the content review wired to the
\* structure stage.
ConditionalEdgesMiswired ==
    [validate_module_structure |->
        [pass |-> "xdp_agent", review |-> "human_review_structure"],
     human_review_structure |->
        [approve |-> "xdp_agent", reject |-> "module_structure_agent",
         continue |-> "xdp_agent"],
     validate_content |->
        [pass |-> "quiz_curator_agent", review |-> "human_review_content"],
     human_review_content |->
        [approve |-> "quiz_curator_agent", reject |-> "module_structure_agent",
         continue |-> "quiz_curator_agent"],
     validate_quizzes |->
        [pass |-> "finalize_course", review |-> "human_review_quizzes"],
     human_review_quizzes |->
        [approve |-> "finalize_course", reject |-> "quiz_curator_agent",
         continue |-> "finalize_course"]]

\* The conditional edges with no destination for the label 'continue' of the
\* quiz review.
ConditionalEdgesWithoutContinue ==
    [validate_module_structure |->
        [pass |-> "xdp_agent", review |-> "human_review_structure"],
     human_review_structure |->
        [approve |-> "xdp_agent", reject |-> "module_structure_agent",
         continue |-> "xdp_agent"],
     validate_content |->
        [pass |-> "quiz_curator_agent", review |-> "human_review_content"],
     human_review_content |->
        [approve |-> "quiz_curator_agent", reject |-> "course_content_agent",
         continue |-> "quiz_curator_agent"],
     validate_quizzes |->
        [pass |-> "finalize_course", review |-> "human_review_quizzes"],
     human_review_quizzes |->
        [approve |-> "finalize_course", reject |-> "quiz_curator_agent"]]

\* The conditional edges with the rejection of the quiz review wired to the
\* finalizer.
ConditionalEdgesRejectionForward ==
    [validate_module_structure |->
        [pass |-> "xdp_agent", review |-> "human_review_structure"],
     human_review_structure |->
        [approve |-> "xdp_agent", reject |-> "module_structure_agent",
         continue |-> "xdp_agent"],
     validate_content |->
        [pass |-> "quiz_curator_agent", review |-> "human_review_content"],
     human_review_content |->
        [approve |-> "quiz_curator_agent", reject |-> "course_content_agent",
         continue |-> "quiz_curator_agent"],
     validate_quizzes |->
        [pass |-> "finalize_course", review |-> "human_review_quizzes"],
     human_review_quizzes |->
        [approve |-> "finalize_course", reject |-> "finalize_course",
         continue |-> "finalize_course"]]

\* The conditional edges with the approval of the content review wired back
\* to the content stage.
ConditionalEdgesApprovalBack ==
    [validate_module_structure |->
        [pass |-> "xdp_agent", review |-> "human_review_structure"],
     human_review_structure |->
        [approve |-> "xdp_agent", reject |-> "module_structure_agent",
         continue |-> "xdp_agent"],
     validate_content |->
        [pass |-> "quiz_curator_agent", review |-> "human_review_content"],
     human_review_content |->
        [approve |-> "course_content_agent", reject |-> "course_content_agent",
         continue |-> "quiz_curator_agent"],
     validate_quizzes |->
        [pass |-> "finalize_course", review |-> "human_review_quizzes"],
     human_review_quizzes |->
        [approve |-> "finalize_course", reject |-> "quiz_curator_agent",
         continue |-> "finalize_course"]]

\* workflow.add_conditional_edges: the destination of every branch label
ConditionalEdges ==
    [validate_module_structure |->
        [pass |-> "xdp_agent", review |-> "human_review_structure"],
     human_review_structure |->
        [approve |-> "xdp_agent", reject |-> "module_structure_agent",
         continue |-> "xdp_agent"],
     validate_content |->
        [pass |-> "quiz_curator_agent", review |-> "human_review_content"],
     human_review_content |->
        [approve |-> "quiz_curator_agent", reject |-> "course_content_agent",
         continue |-> "quiz_curator_agent"],
     validate_quizzes |->
        [pass |-> "finalize_course", review |-> "human_review_quizzes"],
     human_review_quizzes |->
        [approve |-> "finalize_course", reject |-> "quiz_curator_agent",
         continue |-> "finalize_course"]]

\* workflow.compile(interrupt_after=[...])
InterruptAfter ==
    {"human_review_structure", "human_review_content", "human_review_quizzes"}

ReviewNode(checkpoint) ==
    CASE checkpoint = "structure" -> "human_review_structure"
      [] checkpoint = "content" -> "human_review_content"
      [] checkpoint = "quizzes" -> "human_review_quizzes"

\* The branch label the router of a review node returns.
ReviewRoute(checkpoint, approvals, feedbacks) ==
    CASE checkpoint = "structure" -> route_after_structure_review(approvals, feedbacks)
      [] checkpoint = "content" -> route_after_content_review(approvals, feedbacks)
      [] checkpoint = "quizzes" -> route_after_quiz_review(approvals, feedbacks)
(***************************************************************************)
(* nodes/hitl_review_nodes.py                                              *)
(***************************************************************************)
\* One suggestion list for the three checkpoints.
suggestion_key_shared(review_type) == "quiz_suggestions"

suggestion_key(review_type) ==
    CASE review_type = "structure" -> "structure_suggestions"
      [] review_type = "content" -> "content_suggestions"
      [] review_type = "quizzes" -> "quiz_suggestions"

\* _process_review_feedback with an approval that records no status.
process_review_feedback_unrecorded(review_type, feedback, approvals, feedbacks) ==
    LET texts == [feedbacks EXCEPT ![review_type] = feedback.feedback]
    IN  CASE feedback.approval_status = "True" ->
                [approval_status |-> approvals,
                 human_feedback |-> texts,
                 current_step |-> <<review_type, "approved">>]
          [] feedback.approval_status = "False" ->
                [approval_status |-> [approvals EXCEPT ![review_type] = "False"],
                 human_feedback |->
                    IF feedback.suggestions # <<>>
                    THEN [texts EXCEPT ![suggestion_key(review_type)] = feedback.suggestions]
                    ELSE texts,
                 current_step |-> <<review_type, "rejected">>]
          [] OTHER ->
                [approval_status |-> [approvals EXCEPT ![review_type] = "True"],
                 human_feedback |-> texts,
                 current_step |-> <<review_type, "edited">>]

\* _process_review_feedback recording no status for a decision that is
\* neither an approval nor a rejection.
process_review_feedback_null_kept(review_type, feedback, approvals, feedbacks) ==
    LET texts == [feedbacks EXCEPT ![review_type] = feedback.feedback]
    IN  CASE feedback.approval_status = "True" ->
                [approval_status |-> [approvals EXCEPT ![review_type] = "True"],
                 human_feedback |-> texts,
                 current_step |-> <<review_type, "approved">>]
          [] feedback.approval_status = "False" ->
                [approval_status |-> [approvals EXCEPT ![review_type] = "False"],
                 human_feedback |->
                    IF feedback.suggestions # <<>>
                    THEN [texts EXCEPT ![suggestion_key(review_type)] = feedback.suggestions]
                    ELSE texts,
                 current_step |-> <<review_type, "rejected">>]
          [] OTHER ->
                [approval_status |-> approvals,
                 human_feedback |-> texts,
                 current_step |-> <<review_type, "edited">>]

\* What _process_review_feedback leaves in approval_status, human_feedback and
\* current_step for the feedback the human gave.
process_review_feedback(review_type, feedback, approvals, feedbacks) ==
    LET texts == [feedbacks EXCEPT ![review_type] = feedback.feedback]
    IN  CASE feedback.approval_status = "True" ->
                [approval_status |-> [approvals EXCEPT ![review_type] = "True"],
                 human_feedback |-> texts,
                 current_step |-> <<review_type, "approved">>]
          [] feedback.approval_status = "False" ->
                [approval_status |-> [approvals EXCEPT ![review_type] = "False"],
                 human_feedback |->
                    IF feedback.suggestions # <<>>
                    THEN [texts EXCEPT ![suggestion_key(review_type)] = feedback.suggestions]
                    ELSE texts,
                 current_step |-> <<review_type, "rejected">>]
          [] OTHER ->
                [approval_status |-> [approvals EXCEPT ![review_type] = "True"],
                 human_feedback |-> texts,
                 current_step |-> <<review_type, "edited">>]

\* The review node asking whenever the artifact is not approved.
asks_for_feedback_unless_approved(status) == status # "True"

\* human_review_*: the node asks for feedback only when no status is recorded.
asks_for_feedback(status) == status = "None"

(***************************************************************************)
(* The history the properties read.                                        *)
(***************************************************************************)
NoDecision == [approval_status |-> "n/a", feedback |-> "", suggestions |-> <<>>]

\* The part of hist that describes the stage that ran last.
LastStage(entry, asked, decision, outcome, after_rejection) ==
    [entry_status |-> entry, asked |-> asked, decision |-> decision,
     outcome |-> outcome, after_rejection |-> after_rejection]

NoStage == LastStage("n/a", FALSE, NoDecision, "n/a", FALSE)

HistInit ==
    [last |-> NoStage,
     decided_since |-> [c \in Checkpoints |-> FALSE],
     reject_since_run |-> [c \in Checkpoints |-> FALSE]]

\* A stage other than a review or a generation stage ran.
HistOther == [hist EXCEPT !.last = NoStage]

\* The generation stage of `checkpoint` ran and ended `outcome`; `wrote` says
\* whether it replaced its artifact.
HistGenerated(checkpoint, outcome, wrote) ==
    [hist EXCEPT
        !.last = LastStage("n/a", FALSE, NoDecision, outcome,
                           approval_status[checkpoint] = "False"),
        !.decided_since[checkpoint] = IF wrote THEN FALSE ELSE @,
        !.reject_since_run[checkpoint] = FALSE]

(***************************************************************************)
(* The run.                                                                *)
(***************************************************************************)
NoResults == [k \in {} |-> NoValidation]

Init ==
    /\ pc = "collect_user_input"
    /\ prev = "START"
    /\ interrupted = FALSE
    /\ waiting = FALSE
    /\ research_findings = NoneValue
    /\ module_structure = NoneValue
    /\ xdp_content = NoneValue
    /\ course_content = <<>>
    /\ quizzes = <<>>
    /\ course_metadata = NoneValue
    /\ approval_status = [c \in Checkpoints |-> "None"]
    /\ human_feedback =
          [k \in Checkpoints \cup {suggestion_key(c) : c \in Checkpoints} |->
              IF k \in Checkpoints THEN "" ELSE <<>>]
    /\ validation_results = NoResults
    /\ errors = <<>>
    /\ current_step = <<"workflow", "initialized">>
    /\ hist = HistInit
    /\ PoolIdle
    /\ request = RequestedCourse

\* The graph runs a node only while it is neither interrupted nor blocked.
Running(node) == pc = node /\ ~interrupted /\ ~waiting

\* The graph after `node` returned: the edge out of it, and the interrupt.
Advance(node, destination) ==
    /\ pc' = destination
    /\ prev' = node
    /\ interrupted' = (node \in InterruptAfter)

\* state["errors"].append(message), within the bound of the model
AppendError(message) ==
    /\ Len(errors) < MaxErrors
    /\ errors' = Append(errors, message)

\* The caller invokes the graph again after an interrupt.
Resume ==
    /\ interrupted
    /\ interrupted' = FALSE
    /\ UNCHANGED <<pc, prev, waiting, artifacts, approval_status, human_feedback,
                   validation_results, errors, current_step, hist>>
    /\ UNCHANGED pool
    /\ UNCHANGED request
(***************************************************************************)
(* nodes/question_collector.py and agents/researcher_agent.py              *)
(***************************************************************************)
\* What the researcher may leave in research_findings.
ResearchFindings ==
    {[learning_objectives |-> <<"objective 1">>],
     [learning_objectives |-> <<>>]}

collect_user_input ==
    /\ Running("collect_user_input")
    /\ current_step' = <<"input", "collected">>
    /\ hist' = HistOther
    /\ Advance("collect_user_input", Edges.collect_user_input)
    /\ UNCHANGED <<waiting, artifacts, approval_status, human_feedback,
                   validation_results, errors>>
    /\ UNCHANGED pool
    /\ UNCHANGED request

researcher_agent ==
    /\ Running("researcher_agent")
    /\ \E outcome \in {"ok", "llm_error"} :
          IF outcome = "ok"
          THEN /\ \E findings \in ResearchFindings : research_findings' = findings
               /\ current_step' = <<"research", "completed">>
               /\ UNCHANGED errors
          ELSE /\ AppendError("Researcher agent error")
               /\ current_step' = <<"research", "failed">>
               /\ UNCHANGED research_findings
    /\ hist' = HistOther
    /\ Advance("researcher_agent", Edges.researcher_agent)
    /\ UNCHANGED <<waiting, module_structure, xdp_content, course_content, quizzes,
                   course_metadata, approval_status, human_feedback,
                   validation_results>>
    /\ UNCHANGED pool
    /\ UNCHANGED request

(***************************************************************************)
(* agents/module_structure_agent.py                                        *)
(***************************************************************************)
\* is_regeneration of the three generation stages
is_regeneration(checkpoint) ==
    \/ approval_status[checkpoint] = "False"
    \/ human_feedback[suggestion_key(checkpoint)] # <<>>

\* A generation stage that keeps the status of the rejection.
status_after_generation_kept(checkpoint, regeneration, approvals) == approvals

\* The status a generation stage leaves after it generated its artifact.
status_after_generation(checkpoint, regeneration, approvals) ==
    IF regeneration THEN [approvals EXCEPT ![checkpoint] = "None"] ELSE approvals

module_structure_agent ==
    /\ Running("module_structure_agent")
    /\ IF ~Truthy(research_findings)
       THEN /\ AppendError("Research findings not available")
            /\ hist' = HistGenerated("structure", "early", FALSE)
            /\ UNCHANGED <<module_structure, approval_status, current_step>>
       ELSE \E response \in StructureResponses, outcome \in StageOutcomes :
            LET generated == IF response.modules = <<>>
                             THEN FallbackStructure ELSE response
            IN  CASE outcome = "ok" ->
                       /\ module_structure' = generated
                       /\ current_step' = <<"module_structure", "created">>
                       /\ approval_status' =
                             status_after_generation("structure",
                                 is_regeneration("structure"), approval_status)
                       /\ hist' = HistGenerated("structure", "ok", TRUE)
                       /\ UNCHANGED errors
                  [] outcome = "llm_error" ->
                       /\ AppendError("Module structure agent error")
                       /\ current_step' = <<"module_structure", "failed">>
                       /\ module_structure' =
                             IF Truthy(module_structure) THEN module_structure
                             ELSE EmptyDict
                       /\ hist' = HistGenerated("structure", "failed", FALSE)
                       /\ UNCHANGED approval_status
                  [] outcome = "save_error" ->
                       /\ module_structure' = generated
                       /\ AppendError("Module structure agent error")
                       /\ current_step' = <<"module_structure", "failed">>
                       /\ hist' = HistGenerated("structure", "failed", TRUE)
                       /\ UNCHANGED approval_status
    /\ Advance("module_structure_agent", Edges.module_structure_agent)
    /\ UNCHANGED <<waiting, research_findings, xdp_content, course_content, quizzes,
                   course_metadata, human_feedback, validation_results>>
    /\ UNCHANGED pool
    /\ UNCHANGED request

(***************************************************************************)
(* The validation nodes of the graph.                                      *)
(***************************************************************************)
validate_module_structure_node ==
    /\ Running("validate_module_structure")
    /\ validation_results' =
          update_validation_results(validation_results, "module_structure",
              validate_module_structure(module_structure, Parameters))
    /\ hist' = HistOther
    /\ Advance("validate_module_structure",
               ConditionalEdges.validate_module_structure[
                   route_after_structure_validation(validation_results')])
    /\ UNCHANGED <<waiting, artifacts, approval_status, human_feedback, errors,
                   current_step>>
    /\ UNCHANGED pool
    /\ UNCHANGED request

validate_content_node ==
    /\ Running("validate_content")
    /\ validation_results' =
          update_validation_results(validation_results, "content",
              validate_content(course_content))
    /\ hist' = HistOther
    /\ Advance("validate_content",
               ConditionalEdges.validate_content[
                   route_after_content_validation(validation_results')])
    /\ UNCHANGED <<waiting, artifacts, approval_status, human_feedback, errors,
                   current_step>>
    /\ UNCHANGED pool
    /\ UNCHANGED request

validate_quizzes_node ==
    /\ Running("validate_quizzes")
    /\ validation_results' =
          update_validation_results(validation_results, "quizzes",
              validate_quizzes(quizzes, research_findings))
    /\ hist' = HistOther
    /\ Advance("validate_quizzes",
               ConditionalEdges.validate_quizzes[
                   route_after_quiz_validation(validation_results')])
    /\ UNCHANGED <<waiting, artifacts, approval_status, human_feedback, errors,
                   current_step>>
    /\ UNCHANGED pool
    /\ UNCHANGED request

(***************************************************************************)
(* The review nodes: human_review_structure, human_review_content and      *)
(* human_review_quizzes, up to the call of get_interactive_feedback and    *)
(* from its return.                                                        *)
(***************************************************************************)
human_review(checkpoint) ==
    /\ Running(ReviewNode(checkpoint))
    /\ IF asks_for_feedback(approval_status[checkpoint])
       THEN /\ waiting' = TRUE
            /\ hist' = [hist EXCEPT !.last =
                          LastStage(approval_status[checkpoint], TRUE, NoDecision,
                                    "n/a", FALSE)]
            /\ UNCHANGED <<pc, prev, interrupted>>
       ELSE /\ hist' = [hist EXCEPT !.last =
                          LastStage(approval_status[checkpoint], FALSE, NoDecision,
                                    "n/a", FALSE)]
            /\ Advance(ReviewNode(checkpoint),
                       ConditionalEdges[ReviewNode(checkpoint)][
                           ReviewRoute(checkpoint, approval_status, human_feedback)])
            /\ UNCHANGED waiting
    /\ UNCHANGED <<artifacts, approval_status, human_feedback, validation_results,
                   errors, current_step>>
    /\ UNCHANGED pool
    /\ UNCHANGED request

receive_feedback(checkpoint) ==
    /\ pc = ReviewNode(checkpoint)
    /\ waiting
    /\ \E feedback \in Decisions :
          LET after == process_review_feedback(checkpoint, feedback,
                                               approval_status, human_feedback)
          IN  /\ approval_status' = after.approval_status
              /\ human_feedback' = after.human_feedback
              /\ current_step' = after.current_step
              /\ hist' = [hist EXCEPT
                            !.last = LastStage("None", TRUE, feedback, "n/a", FALSE),
                            !.decided_since[checkpoint] = TRUE,
                            !.reject_since_run[checkpoint] =
                                (feedback.approval_status = "False")]
    /\ waiting' = FALSE
    /\ Advance(ReviewNode(checkpoint),
               ConditionalEdges[ReviewNode(checkpoint)][
                   ReviewRoute(checkpoint, approval_status', human_feedback')])
    /\ UNCHANGED <<artifacts, validation_results, errors>>
    /\ UNCHANGED pool
    /\ UNCHANGED request
(***************************************************************************)
(* agents/xdp_agent.py                                                     *)
(***************************************************************************)
xdp_agent ==
    /\ Running("xdp_agent")
    /\ IF ~Truthy(module_structure)
       THEN /\ AppendError("Module structure not available")
            /\ UNCHANGED <<xdp_content, current_step>>
       ELSE \E outcome \in StageOutcomes :
            CASE outcome = "ok" ->
                   /\ xdp_content' = [metadata |-> "XDP"]
                   /\ current_step' = <<"xdp", "created">>
                   /\ UNCHANGED errors
              [] outcome = "llm_error" ->
                   /\ AppendError("XDP agent error")
                   /\ current_step' = <<"xdp", "failed">>
                   /\ UNCHANGED xdp_content
              [] outcome = "save_error" ->
                   /\ xdp_content' = [metadata |-> "XDP"]
                   /\ AppendError("XDP agent error")
                   /\ current_step' = <<"xdp", "failed">>
    /\ hist' = HistOther
    /\ Advance("xdp_agent", Edges.xdp_agent)
    /\ UNCHANGED <<waiting, research_findings, module_structure, course_content,
                   quizzes, course_metadata, approval_status, human_feedback,
                   validation_results>>
    /\ UNCHANGED pool
    /\ UNCHANGED request

(***************************************************************************)
(* agents/course_content_agent.py                                          *)
(***************************************************************************)
\* tuple comparison of two keys of the same length
RECURSIVE LexLess(_, _)
LexLess(a, b) ==
    IF a = <<>> THEN FALSE
    ELSE IF Head(a) # Head(b) THEN Head(a) < Head(b)
    ELSE LexLess(Tail(a), Tail(b))

\* list.sort(key=...): a stable sort, keys[i] being the key of items[i]; an
\* item comes after the items of smaller key and after the items of equal key
\* that were before it in the list
SortBy(items, keys) ==
    CHOOSE sorted \in
       {LET place(i) == Cardinality({j \in DOMAIN p[1] :
                                        \/ LexLess(p[2][j], p[2][i])
                                        \/ (~LexLess(p[2][i], p[2][j]) /\ j <= i)})
        IN  [k \in DOMAIN p[1] |-> p[1][CHOOSE i \in DOMAIN p[1] : place(i) = k]] :
           p \in {<<items, keys>>}} : TRUE

\* lesson["module_id"] = module["module_id"] for every lesson of the structure
AnnotatedStructure(structure) ==
    [modules |-> [i \in DOMAIN structure.modules |->
        [structure.modules[i] EXCEPT !.lessons =
            [j \in DOMAIN @ |-> [@[j] EXCEPT !.module_id = structure.modules[i].module_id]]]]]

all_lessons(structure) ==
    Flatten([i \in DOMAIN structure.modules |-> structure.modules[i].lessons])

batch_size == 4

Batches(lessons) ==
    [b \in 1..((Len(lessons) + batch_size - 1) \div batch_size) |->
        SubSeq(lessons, (b - 1) * batch_size + 1, Min(b * batch_size, Len(lessons)))]

\* f"lesson_{module_id}_{batch_num}_{idx}"
LessonId(lesson, batch_num, idx) == <<lesson.module_id, batch_num, idx>>

LessonContent(lesson, batch_num, idx, intro, main, summary, examples, exercises) ==
    [lesson_id |-> LessonId(lesson, batch_num, idx),
     module_id |-> lesson.module_id,
     lesson_name |-> lesson.lesson_name,
     introduction |-> intro, main_content |-> main, summary |-> summary,
     examples |-> examples, practice_exercises |-> exercises]

\* The placeholder lesson of generate_batch and of the collecting loop.
FallbackLesson(lesson, batch_num, idx) ==
    LessonContent(lesson, batch_num, idx, 24, 25, 19, 2, 2)

\* What the chain of a batch may give: full lessons, nothing usable, or an
\* exception.
BatchOutcomes == {"good", "empty", "raise"}

\* The lesson_id of an answer that names none: x.get("lesson_id", "").
NoLessonId == <<0, 0, 0>>

batch_content(batch, batch_num, outcome) ==
    [k \in DOMAIN batch |->
        CASE outcome = "good" -> LessonContent(batch[k], batch_num, k - 1, 60, 60, 60, 2, 2)
          [] outcome = "unlabelled" ->
                [LessonContent(batch[k], batch_num, k - 1, 60, 60, 60, 2, 2)
                    EXCEPT !.lesson_id = NoLessonId]
          [] OTHER -> FallbackLesson(batch[k], batch_num, k - 1)]

lesson_sort_key(lesson) == <<lesson.module_id>> \o lesson.lesson_id

generated_content(batches, outcomes) ==
    LET collected == Flatten([b \in DOMAIN batches |->
                                batch_content(batches[b], b, outcomes[b])])
    IN  SortBy(collected, [i \in DOMAIN collected |-> lesson_sort_key(collected[i])])

\* The content stage sets approval_status["content"] = None before it generates.
status_before_generation(checkpoint, regeneration, approvals) ==
    IF regeneration THEN [approvals EXCEPT ![checkpoint] = "None"] ELSE approvals

course_content_agent ==
    /\ Running("course_content_agent")
    /\ IF ~Truthy(module_structure)
       THEN /\ AppendError("Module structure not available")
            /\ hist' = HistGenerated("content", "early", FALSE)
            /\ UNCHANGED <<module_structure, course_content, approval_status,
                           current_step>>
       ELSE LET batches == Batches(all_lessons(AnnotatedStructure(module_structure)))
            IN  /\ approval_status' =
                      status_before_generation("content", is_regeneration("content"),
                                               approval_status)
                /\ module_structure' = AnnotatedStructure(module_structure)
                /\ IF Len(batches) = 0
                   THEN \* ThreadPoolExecutor(max_workers=0) raises ValueError
                        /\ AppendError("Course content agent error")
                        /\ current_step' = <<"course_content", "failed">>
                        /\ hist' = HistGenerated("content", "failed", FALSE)
                        /\ UNCHANGED course_content
                   ELSE \E outcomes \in [DOMAIN batches -> BatchOutcomes],
                           outcome \in {"ok", "save_error"} :
                        /\ course_content' = generated_content(batches, outcomes)
                        /\ IF outcome = "ok"
                           THEN /\ current_step' = <<"course_content", "created">>
                                /\ hist' = HistGenerated("content", "ok", TRUE)
                                /\ UNCHANGED errors
                           ELSE /\ AppendError("Course content agent error")
                                /\ current_step' = <<"course_content", "failed">>
                                /\ hist' = HistGenerated("content", "failed", TRUE)
    /\ Advance("course_content_agent", Edges.course_content_agent)
    /\ UNCHANGED <<waiting, research_findings, xdp_content, quizzes,
                   course_metadata, human_feedback, validation_results>>
    /\ UNCHANGED pool
    /\ UNCHANGED request
(***************************************************************************)
(* agents/quiz_curator_agent.py                                            *)
(***************************************************************************)
QuizTask(quiz_type, module_id, quiz_num) ==
    [quiz_type |-> quiz_type, module_id |-> module_id, quiz_num |-> quiz_num]

\* The quiz tasks without the practice quizzes.
quiz_tasks_graded_only(structure) ==
    Flatten([i \in DOMAIN structure.modules |->
        LET module == structure.modules[i]
        IN  [n \in 1..module.quiz_plan.graded |->
                QuizTask("graded", module.module_id, n)]])

\* quiz_tasks: for every module its graded tasks, then its practice tasks
quiz_tasks(structure) ==
    Flatten([i \in DOMAIN structure.modules |->
        LET module == structure.modules[i]
        IN  [n \in 1..module.quiz_plan.graded |->
                QuizTask("graded", module.module_id, n)]
            \o [n \in 1..module.quiz_plan.practice |->
                QuizTask("practice", module.module_id, n)]])

\* What the chain of a quiz task may give: a quiz with a full question, or
\* nothing (an exception or an empty answer).
QuizOutcomes == {"good", "fail"}

\* f"{quiz_type}_quiz_{module_id}_{quiz_num}"
QuizId(task) == <<task.quiz_type, task.module_id, task.quiz_num>>

generated_quiz(task, outcome) ==
    [quiz_id |-> QuizId(task),
     module_id |-> task.module_id,
     quiz_type |-> task.quiz_type,
     questions |->
        IF outcome = "good"
        THEN <<[question |-> 40, correct_answer |-> TRUE, explanation |-> TRUE,
                learning_objective |-> "objective 1"]>>
        ELSE <<>>]

\* The order of the strings "graded" < "practice".
QuizTypeRank(quiz_type) == IF quiz_type = "graded" THEN 1 ELSE 2

\* sort_key: (module_id, quiz_type, quiz_id)
sort_key(quiz) ==
    <<quiz.module_id, QuizTypeRank(quiz.quiz_type), quiz.quiz_id[2], quiz.quiz_id[3]>>

generated_quizzes(tasks, outcomes) ==
    LET all_quizzes ==
            SeqOfSet([t \in DOMAIN tasks |-> generated_quiz(tasks[t], outcomes[t])],
                     {t \in DOMAIN tasks : outcomes[t] # "fail"})
    IN  SortBy(all_quizzes, [k \in DOMAIN all_quizzes |-> sort_key(all_quizzes[k])])

quiz_curator_agent ==
    /\ Running("quiz_curator_agent")
    /\ IF ~Truthy(module_structure) \/ course_content = <<>>
       THEN /\ AppendError("Module structure or course content not available")
            /\ hist' = HistGenerated("quizzes", "early", FALSE)
            /\ UNCHANGED <<quizzes, approval_status, current_step>>
       ELSE LET tasks == quiz_tasks(module_structure)
            IN  IF Len(tasks) = 0
                THEN \* ThreadPoolExecutor(max_workers=0) raises ValueError
                     /\ AppendError("Quiz curator agent error")
                     /\ current_step' = <<"quizzes", "failed">>
                     /\ hist' = HistGenerated("quizzes", "failed", FALSE)
                     /\ UNCHANGED <<quizzes, approval_status>>
                ELSE \E outcomes \in [DOMAIN tasks -> QuizOutcomes],
                        outcome \in {"ok", "save_error"} :
                     /\ quizzes' = generated_quizzes(tasks, outcomes)
                     /\ IF outcome = "ok"
                        THEN /\ current_step' = <<"quizzes", "created">>
                             /\ approval_status' =
                                   status_after_generation("quizzes",
                                       is_regeneration("quizzes"), approval_status)
                             /\ hist' = HistGenerated("quizzes", "ok", TRUE)
                             /\ UNCHANGED errors
                        ELSE /\ AppendError("Quiz curator agent error")
                             /\ current_step' = <<"quizzes", "failed">>
                             /\ hist' = HistGenerated("quizzes", "failed", TRUE)
                             /\ UNCHANGED approval_status
    /\ Advance("quiz_curator_agent", Edges.quiz_curator_agent)
    /\ UNCHANGED <<waiting, research_findings, module_structure, xdp_content,
                   course_content, course_metadata, human_feedback,
                   validation_results>>
    /\ UNCHANGED pool
    /\ UNCHANGED request

(***************************************************************************)
(* nodes/finalizer.py                                                      *)
(***************************************************************************)
WithModule(items, module_id) ==
    SeqOfSet(items, {i \in DOMAIN items : items[i].module_id = module_id})

complete_course ==
    [course_info |-> [number_of_modules |-> Parameters.number_of_modules],
     modules |->
        IF Truthy(module_structure) /\ course_content # <<>>
        THEN [i \in DOMAIN module_structure.modules |->
                [module_id |-> module_structure.modules[i].module_id,
                 lessons |-> WithModule(course_content,
                                        module_structure.modules[i].module_id),
                 quizzes |-> WithModule(quizzes,
                                        module_structure.modules[i].module_id)]]
        ELSE <<>>,
     quizzes |-> quizzes,
     xdp_specification |-> xdp_content]

\* The finalizer that empties errors when it succeeds.
finalize_course_clearing_errors ==
    /\ Running("finalize_course")
    /\ course_metadata' =
          [complete_structure |-> complete_course,
           statistics |->
              [total_modules |-> Len(complete_course.modules),
               total_lessons |-> Len(course_content),
               total_quizzes |-> Len(quizzes)]]
    /\ \E outcome \in {"ok", "save_error"} :
          IF outcome = "ok"
          THEN /\ current_step' = <<"course", "finalized">>
               /\ errors' = <<>>
          ELSE /\ AppendError("Finalizer error")
               /\ current_step' = <<"finalization", "failed">>
    /\ hist' = HistOther
    /\ Advance("finalize_course", Edges.finalize_course)
    /\ UNCHANGED <<waiting, research_findings, module_structure, xdp_content,
                   course_content, quizzes, approval_status, human_feedback,
                   validation_results>>
    /\ UNCHANGED pool
    /\ UNCHANGED request

finalize_course ==
    /\ Running("finalize_course")
    /\ course_metadata' =
          [complete_structure |-> complete_course,
           statistics |->
              [total_modules |-> Len(complete_course.modules),
               total_lessons |-> Len(course_content),
               total_quizzes |-> Len(quizzes)]]
    /\ \E outcome \in {"ok", "save_error"} :
          IF outcome = "ok"
          THEN /\ current_step' = <<"course", "finalized">>
               /\ UNCHANGED errors
          ELSE /\ AppendError("Finalizer error")
               /\ current_step' = <<"finalization", "failed">>
    /\ hist' = HistOther
    /\ Advance("finalize_course", Edges.finalize_course)
    /\ UNCHANGED <<waiting, research_findings, module_structure, xdp_content,
                   course_content, quizzes, approval_status, human_feedback,
                   validation_results>>
    /\ UNCHANGED pool
    /\ UNCHANGED request

Next ==
    \/ collect_user_input
    \/ researcher_agent
    \/ module_structure_agent
    \/ validate_module_structure_node
    \/ \E checkpoint \in Checkpoints : human_review(checkpoint)
    \/ \E checkpoint \in Checkpoints : receive_feedback(checkpoint)
    \/ Resume
    \/ xdp_agent
    \/ course_content_agent
    \/ validate_content_node
    \/ quiz_curator_agent
    \/ validate_quizzes_node
    \/ finalize_course

Spec == Init /\ [][Next]_vars

(***************************************************************************)
(* The validation nodes on their own: each validator applied to every      *)
(* artifact of a bounded set, from a state in which the graph is about to   *)
(* run the validation node.                                                *)
(***************************************************************************)
\* Modules of a structure, lessons of a course content and quizzes of a quiz
\* list that the validators are applied to.
MaxModulesChecked == 3
MaxLessonsChecked == 2
MaxQuizzesChecked == 2

\* Structures of n modules, every module with 0 to 2 lessons and a quiz plan
\* of 0 or 1 graded quizzes.
StructureInputs(n) ==
    {[modules |-> [i \in 1..n |-> Module(i, shape[i][1], shape[i][2], 0)]] :
        shape \in [1..n -> (0..2) \X (0..1)]}

\* Lessons as the content stage stores them: text fields by their lengths
\* (0 for an empty or absent field), lists by their sizes.
LessonShapes == {0, 50, 60} \X {20, 60} \X {10, 60} \X {0, 2} \X {0, 2}

LessonInput(k, shape) ==
    LessonContent([lesson_name |-> k, module_id |-> 1], 1, k - 1,
                  shape[1], shape[2], shape[3], shape[4], shape[5])

ContentInputs(n) ==
    {[k \in 1..n |-> LessonInput(k, shapes[k])] : shapes \in [1..n -> LessonShapes]}

\* Questions of a quiz: complete, with a text of exactly 20 characters, with
\* nothing but a text, and with no text.
QuestionInputs ==
    {[question |-> 21, correct_answer |-> TRUE, explanation |-> TRUE,
      learning_objective |-> "objective 1"],
     [question |-> 20, correct_answer |-> TRUE, explanation |-> FALSE,
      learning_objective |-> "objective 2"],
     [question |-> 40, correct_answer |-> FALSE, explanation |-> FALSE,
      learning_objective |-> ""],
     [question |-> 0, correct_answer |-> FALSE, explanation |-> TRUE,
      learning_objective |-> "objective 1"]}

QuestionLists == UNION {[1..n -> QuestionInputs] : n \in 0..2}

QuizInput(k, questions) ==
    [quiz_id |-> QuizId(QuizTask("graded", 1, k)),
     module_id |-> 1,
     quiz_type |-> "graded",
     questions |-> questions]

QuizListInputs(n) ==
    {[k \in 1..n |-> QuizInput(k, questions[k])] :
        questions \in [1..n -> QuestionLists]}

\* research_findings: absent, without objectives, with one or two objectives
FindingsInputs ==
    {NoneValue,
     [learning_objectives |-> <<>>],
     [learning_objectives |-> <<"objective 1">>],
     [learning_objectives |-> <<"objective 1", "objective 2">>]}

InitValidators ==
    /\ \/ /\ pc = "validate_module_structure"
          /\ \/ module_structure = NoneValue
             \/ \E n \in 0..MaxModulesChecked : module_structure \in StructureInputs(n)
          /\ research_findings = NoneValue
          /\ course_content = <<>>
          /\ quizzes = <<>>
       \/ /\ pc = "validate_content"
          /\ \E n \in 0..MaxLessonsChecked : course_content \in ContentInputs(n)
          /\ research_findings = NoneValue
          /\ module_structure = NoneValue
          /\ quizzes = <<>>
       \/ /\ pc = "validate_quizzes"
          /\ \E n \in 0..MaxQuizzesChecked : quizzes \in QuizListInputs(n)
          /\ research_findings \in FindingsInputs
          /\ module_structure = NoneValue
          /\ course_content = <<>>
    /\ prev = "START"
    /\ interrupted = FALSE
    /\ waiting = FALSE
    /\ xdp_content = NoneValue
    /\ course_metadata = NoneValue
    /\ approval_status = [c \in Checkpoints |-> "None"]
    /\ human_feedback =
          [k \in Checkpoints \cup {suggestion_key(c) : c \in Checkpoints} |->
              IF k \in Checkpoints THEN "" ELSE <<>>]
    /\ validation_results = NoResults
    /\ errors = <<>>
    /\ current_step = <<"workflow", "initialized">>
    /\ hist = HistInit
    /\ PoolIdle
    /\ request = RequestedCourse

NextValidators ==
    \/ validate_module_structure_node
    \/ validate_content_node
    \/ validate_quizzes_node

SpecValidators == InitValidators /\ [][NextValidators]_vars

(***************************************************************************)
(* The generation stages on their own: each stage function invoked on a    *)
(* state of a bounded set, with and without the input it requires.         *)
(***************************************************************************)
GenerationNodes ==
    {"module_structure_agent", "xdp_agent", "course_content_agent",
     "quiz_curator_agent"}

\* The label the stage before left in current_step.
StepBefore ==
    [module_structure_agent |-> <<"research", "completed">>,
     xdp_agent |-> <<"module_structure", "created">>,
     course_content_agent |-> <<"xdp", "created">>,
     quiz_curator_agent |-> <<"course_content", "created">>]

\* The checkpoint whose artifact the stage generates.
StageCheckpoint ==
    [module_structure_agent |-> "structure",
     xdp_agent |-> "none",
     course_content_agent |-> "content",
     quiz_curator_agent |-> "quizzes"]

InitStages ==
    /\ request = RequestedCourse
    /\ pc \in GenerationNodes
    /\ prev = "START"
    /\ interrupted = FALSE
    /\ waiting = FALSE
    /\ research_findings \in {NoneValue} \cup ResearchFindings
    /\ module_structure \in
          {NoneValue, FallbackStructure,
           LLMStructure([i \in 1..NumberOfModules |-> 1])}
    /\ xdp_content = NoneValue
    /\ course_content \in
          {<<>>} \cup
          (IF pc = "quiz_curator_agent" /\ Truthy(module_structure)
           THEN {generated_content(
                    Batches(all_lessons(AnnotatedStructure(module_structure))),
                    [b \in DOMAIN Batches(all_lessons(AnnotatedStructure(module_structure)))
                        |-> "good"])}
           ELSE {})
    /\ quizzes = <<>>
    /\ course_metadata = NoneValue
    /\ \E status \in {"None", "False"} :
          approval_status =
             [c \in Checkpoints |->
                 IF StageCheckpoint[pc] = c THEN status ELSE "None"]
    /\ human_feedback =
          [k \in Checkpoints \cup {suggestion_key(c) : c \in Checkpoints} |->
              IF k \in Checkpoints THEN "" ELSE <<>>]
    /\ validation_results = NoResults
    /\ errors = <<>>
    /\ current_step = StepBefore[pc]
    /\ hist = HistInit
    /\ PoolIdle

\* course_content_agent when GeminiLLM(...) at line 26 or ProgressTracker(...)
\* at line 35 raises: the handler appends the error and sets current_step,
\* then reads `progress`, which is not bound yet, and the UnboundLocalError
\* leaves the stage function.
course_content_agent_setup_raises ==
    /\ Running("course_content_agent")
    /\ Truthy(module_structure)
    /\ AppendError("Course content agent error")
    /\ current_step' = <<"course_content", "failed">>
    /\ hist' = HistGenerated("content", "failed", FALSE)
    /\ pc' = "raised"
    /\ prev' = "course_content_agent"
    /\ UNCHANGED <<interrupted, waiting, artifacts, approval_status,
                   human_feedback, validation_results>>
    /\ UNCHANGED pool
    /\ UNCHANGED request

NextStages ==
    \/ module_structure_agent
    \/ xdp_agent
    \/ course_content_agent
    \/ course_content_agent_setup_raises
    \/ quiz_curator_agent

SpecStages == InitStages /\ [][NextStages]_vars

(***************************************************************************)
(* The content and the quiz stage followed by their validation, on module  *)
(* structures with and without lessons and with and without planned        *)
(* quizzes.                                                                *)
(***************************************************************************)
\* A structure the chain parsed: every module with the same number of lessons
\* and the same quiz plan.
PlannedStructure(nLessons, graded, practice) ==
    [modules |-> [i \in 1..NumberOfModules |-> Module(i, nLessons, graded, practice)]]

\* The content generated for every lesson of a structure.
ContentOf(structure) ==
    LET batches == Batches(all_lessons(AnnotatedStructure(structure)))
    IN  generated_content(batches, [b \in DOMAIN batches |-> "good"])

\* The quizzes generated for every quiz task of a structure.
QuizzesOf(structure) ==
    generated_quizzes(quiz_tasks(structure),
                      [t \in DOMAIN quiz_tasks(structure) |-> "good"])

InitStagesValidated ==
    /\ pc \in {"course_content_agent", "quiz_curator_agent"}
    /\ prev = "START"
    /\ interrupted = FALSE
    /\ waiting = FALSE
    /\ research_findings \in ResearchFindings
    /\ \E nLessons \in 0..1, graded \in 0..1, practice \in 0..1 :
          module_structure = PlannedStructure(nLessons, graded, practice)
    /\ xdp_content = NoneValue
    /\ \E status \in {"None", "False"} :
          /\ approval_status =
                [c \in Checkpoints |->
                    IF StageCheckpoint[pc] = c THEN status ELSE "None"]
          /\ course_content \in
                {<<>>} \cup
                (IF pc = "quiz_curator_agent" \/ status = "False"
                 THEN {ContentOf(module_structure)} ELSE {})
          /\ quizzes \in
                {<<>>} \cup
                (IF pc = "quiz_curator_agent" /\ status = "False"
                 THEN {QuizzesOf(module_structure)} ELSE {})
    /\ course_metadata = NoneValue
    /\ human_feedback =
          [k \in Checkpoints \cup {suggestion_key(c) : c \in Checkpoints} |->
              IF k \in Checkpoints THEN "" ELSE <<>>]
    /\ validation_results = NoResults
    /\ errors = <<>>
    /\ current_step = StepBefore[pc]
    /\ hist = HistInit
    /\ PoolIdle
    /\ request = RequestedCourse

NextStagesValidated ==
    \/ course_content_agent
    \/ validate_content_node
    \/ quiz_curator_agent
    \/ validate_quizzes_node

SpecStagesValidated == InitStagesValidated /\ [][NextStagesValidated]_vars

(***************************************************************************)
(* The fan-out of the content, quiz and transcript stages, step by step:   *)
(* the stage submits its tasks to a ThreadPoolExecutor, the workers run    *)
(* them, the stage collects the futures as they complete, sorts what it    *)
(* collected and writes it to the state.                                   *)
(***************************************************************************)
\* min(4, total_batches), min(5, len(quiz_tasks)), min(4, len(modules))
content_cap == 4
quiz_cap == 5
transcript_cap == 4

WorkerCap == [content |-> content_cap, quizzes |-> quiz_cap,
              transcripts |-> transcript_cap]

\* An executor with a thread for every task.
max_workers_per_task(cap, tasks) == tasks

max_workers(cap, tasks) == Min(cap, tasks)

\* Modules of the structures the fan-out is run on.
MaxFanOutModules == 6

\* The structures: modules of three lessons for the content stage, which
\* gives batches that span modules, and modules of one lesson and one graded
\* quiz for the quiz and the transcript stage.
FanOutStructure(stage, n) ==
    [modules |-> [i \in 1..n |->
        IF stage = "content" THEN Module(i, FallbackLessons, 1, 1)
        ELSE Module(i, 1, 1, 0)]]

\* Answers of the collaborator to the tasks of a fan-out: the same kind of
\* answer to every task, or a good answer to every task but the first or but
\* the last.
Answers(stage) ==
    CASE stage = "content" -> BatchOutcomes \cup {"unlabelled"}
      [] stage = "quizzes" -> QuizOutcomes
      [] OTHER -> {"good", "short", "raise"}

ResponseVectors(stage, n) ==
    {[t \in 1..n |-> kind] : kind \in Answers(stage)}
    \cup {[t \in 1..n |-> IF t = d THEN kind ELSE "good"] :
             d \in {1, n}, kind \in Answers(stage) \ {"good", "unlabelled"}}

\* f"lesson_{module_id}_{index}" of generate_module_transcripts
Transcript(module, index) ==
    [lesson_id |-> <<module.module_id, 0, index>>,
     module_id |-> module.module_id,
     lesson_name |-> module.lessons[index + 1].lesson_name]

\* What the future of a task holds when the worker is done: the returned
\* list, or the error of a call that failed.
future_result(stage, task, num, response) ==
    CASE stage = "content" ->
            IF response = "raise" THEN [value |-> <<>>, error |-> TRUE]
            ELSE [value |-> batch_content(task, num, response), error |-> FALSE]
      [] stage = "quizzes" ->
            IF response = "fail" THEN [value |-> <<>>, error |-> TRUE]
            ELSE [value |-> <<generated_quiz(task, response)>>, error |-> FALSE]
      [] OTHER ->
            IF response = "raise" THEN [value |-> <<>>, error |-> TRUE]
            ELSE [value |-> [k \in DOMAIN task.lessons |-> Transcript(task, k - 1)],
                  error |-> FALSE]

\* The collecting loop without the placeholders for a failed batch.
merged_dropping_failures(stage, task, num, response) ==
    future_result(stage, task, num, response).value

\* What the collecting loop adds to the list for a completed future: the
\* value, the placeholders for a failed batch, nothing for another failure.
merged(stage, task, num, response) ==
    LET result == future_result(stage, task, num, response)
    IN  IF result.error
        THEN IF stage = "content" THEN batch_content(task, num, "raise") ELSE <<>>
        ELSE result.value

\* What a worker appends to the progress file while it runs its task: the
\* transcript worker logs a warning for a short or missing transcript.
worker_log(stage, response) ==
    IF stage = "transcripts" /\ response = "short"
    THEN <<LogEntry("video_transcript_agent", "in_progress")>> ELSE <<>>

Submitted(stage, tasks, responses) ==
    [stage |-> stage, tasks |-> tasks, responses |-> responses,
     status |-> [t \in DOMAIN tasks |-> "queued"],
     collected |-> <<>>, joined |-> FALSE]

InFlight == {t \in DOMAIN executor.status : executor.status[t] = "running"}

\* course_content_agent up to the submission of its batches
submit_batches ==
    /\ Running("course_content_agent")
    /\ executor.stage = "none"
    /\ Truthy(module_structure)
    /\ LET batches == Batches(all_lessons(AnnotatedStructure(module_structure)))
       IN  /\ Len(batches) > 0
           /\ \E responses \in ResponseVectors("content", Len(batches)) :
                 executor' = Submitted("content", batches, responses)
    /\ approval_status' =
          status_before_generation("content", is_regeneration("content"),
                                   approval_status)
    /\ module_structure' = AnnotatedStructure(module_structure)
    /\ UNCHANGED <<pc, prev, interrupted, waiting, research_findings, xdp_content,
                   course_content, quizzes, course_metadata, human_feedback,
                   validation_results, errors, current_step, hist,
                   video_transcripts, progress_log>>
    /\ UNCHANGED request

\* quiz_curator_agent up to the submission of its quiz tasks
submit_quiz_tasks ==
    /\ Running("quiz_curator_agent")
    /\ executor.stage = "none"
    /\ Truthy(module_structure) /\ course_content # <<>>
    /\ LET tasks == quiz_tasks(module_structure)
       IN  /\ Len(tasks) > 0
           /\ \E responses \in ResponseVectors("quizzes", Len(tasks)) :
                 executor' = Submitted("quizzes", tasks, responses)
    /\ UNCHANGED <<pc, prev, interrupted, waiting, artifacts, approval_status,
                   human_feedback, validation_results, errors, current_step,
                   hist, video_transcripts, progress_log>>
    /\ UNCHANGED request

\* video_transcript_agent up to the submission of its modules
submit_modules ==
    /\ Running("video_transcript_agent")
    /\ executor.stage = "none"
    /\ Truthy(module_structure) /\ course_content # <<>>
    /\ LET modules == module_structure.modules
       IN  /\ Len(modules) > 0
           /\ \E responses \in ResponseVectors("transcripts", Len(modules)) :
                 executor' = Submitted("transcripts", modules, responses)
    /\ UNCHANGED <<pc, prev, interrupted, waiting, artifacts, approval_status,
                   human_feedback, validation_results, errors, current_step,
                   hist, video_transcripts, progress_log>>
    /\ UNCHANGED request

\* A worker thread takes the task at the head of the queue: there are at most
\* max_workers threads.
worker_start(t) ==
    /\ executor.stage # "none"
    /\ executor.status[t] = "queued"
    /\ \A u \in 1..(t - 1) : executor.status[u] # "queued"
    /\ Cardinality(InFlight) <
          max_workers(WorkerCap[executor.stage], Len(executor.tasks))
    /\ executor' = [executor EXCEPT !.status[t] = "running"]
    /\ UNCHANGED <<pc, prev, interrupted, waiting, artifacts, approval_status,
                   human_feedback, validation_results, errors, current_step,
                   hist, video_transcripts, progress_log>>
    /\ UNCHANGED request

\* generate_batch, generate_quiz or generate_module_transcripts returns or
\* raises: the future of the task is complete.
worker_finish(t) ==
    /\ executor.stage # "none"
    /\ executor.status[t] = "running"
    /\ executor' = [executor EXCEPT !.status[t] = "finished"]
    /\ progress_log' =
          progress_log \o worker_log(executor.stage, executor.responses[t])
    /\ UNCHANGED <<pc, prev, interrupted, waiting, artifacts, approval_status,
                   human_feedback, validation_results, errors, current_step,
                   hist, video_transcripts>>
    /\ UNCHANGED request

\* One pass of the loop over as_completed(...): the stage takes a completed
\* future and adds its result to the list.
collect(t) ==
    /\ executor.stage # "none"
    /\ executor.status[t] = "finished"
    /\ executor' =
          [executor EXCEPT
              !.status[t] = "collected",
              !.collected = @ \o merged(executor.stage, executor.tasks[t], t,
                                        executor.responses[t])]
    /\ progress_log' = Append(progress_log, LogEntry(pc, "in_progress"))
    /\ UNCHANGED <<pc, prev, interrupted, waiting, artifacts, approval_status,
                   human_feedback, validation_results, errors, current_step,
                   hist, video_transcripts>>
    /\ UNCHANGED request

AllCollected ==
    /\ executor.stage # "none"
    /\ ~executor.joined
    /\ \A t \in DOMAIN executor.status : executor.status[t] = "collected"

\* list.sort(key=lambda x: (x.get("module_id", 0), x.get("lesson_id", "")))
sorted_lessons(collected) ==
    SortBy(collected, [i \in DOMAIN collected |-> lesson_sort_key(collected[i])])

sorted_quizzes(collected) ==
    SortBy(collected, [i \in DOMAIN collected |-> sort_key(collected[i])])

\* course_content_agent after the with block: sort, write, save
write_course_content ==
    /\ pc = "course_content_agent"
    /\ executor.stage = "content"
    /\ AllCollected
    /\ course_content' = sorted_lessons(executor.collected)
    /\ executor' = [executor EXCEPT !.joined = TRUE]
    /\ \E outcome \in {"ok", "save_error"} :
          IF outcome = "ok"
          THEN /\ current_step' = <<"course_content", "created">>
               /\ hist' = HistGenerated("content", "ok", TRUE)
               /\ progress_log' = Append(progress_log, LogEntry(pc, "completed"))
               /\ UNCHANGED errors
          ELSE /\ AppendError("Course content agent error")
               /\ current_step' = <<"course_content", "failed">>
               /\ hist' = HistGenerated("content", "failed", TRUE)
               /\ progress_log' = Append(progress_log, LogEntry(pc, "failed"))
    /\ Advance("course_content_agent", Edges.course_content_agent)
    /\ UNCHANGED <<waiting, research_findings, module_structure, xdp_content,
                   quizzes, course_metadata, approval_status, human_feedback,
                   validation_results, video_transcripts>>
    /\ UNCHANGED request

\* quiz_curator_agent after the with block: sort, write, save, reset
write_quizzes ==
    /\ pc = "quiz_curator_agent"
    /\ executor.stage = "quizzes"
    /\ AllCollected
    /\ quizzes' = sorted_quizzes(executor.collected)
    /\ executor' = [executor EXCEPT !.joined = TRUE]
    /\ \E outcome \in {"ok", "save_error"} :
          IF outcome = "ok"
          THEN /\ current_step' = <<"quizzes", "created">>
               /\ approval_status' =
                     status_after_generation("quizzes", is_regeneration("quizzes"),
                                             approval_status)
               /\ hist' = HistGenerated("quizzes", "ok", TRUE)
               /\ progress_log' = Append(progress_log, LogEntry(pc, "completed"))
               /\ UNCHANGED errors
          ELSE /\ AppendError("Quiz curator agent error")
               /\ current_step' = <<"quizzes", "failed">>
               /\ hist' = HistGenerated("quizzes", "failed", TRUE)
               /\ UNCHANGED <<approval_status, progress_log>>
    /\ Advance("quiz_curator_agent", Edges.quiz_curator_agent)
    /\ UNCHANGED <<waiting, research_findings, module_structure, xdp_content,
                   course_content, course_metadata, human_feedback,
                   validation_results, video_transcripts>>
    /\ UNCHANGED request

\* video_transcript_agent after the with block: sort, write, save.  The stage
\* is no node of the graph: nothing follows it.
write_video_transcripts ==
    /\ pc = "video_transcript_agent"
    /\ executor.stage = "transcripts"
    /\ AllCollected
    /\ video_transcripts' = sorted_lessons(executor.collected)
    /\ executor' = [executor EXCEPT !.joined = TRUE]
    /\ \E outcome \in {"ok", "save_error"} :
          IF outcome = "ok"
          THEN /\ current_step' = <<"video_transcripts", "created">>
               /\ progress_log' = Append(progress_log, LogEntry(pc, "completed"))
               /\ UNCHANGED errors
          ELSE /\ AppendError("Video transcript agent error")
               /\ current_step' = <<"video_transcripts", "failed">>
               /\ progress_log' = Append(progress_log, LogEntry(pc, "failed"))
    /\ hist' = HistOther
    /\ pc' = "END"
    /\ prev' = "video_transcript_agent"
    /\ UNCHANGED <<interrupted, waiting, artifacts, approval_status,
                   human_feedback, validation_results>>
    /\ UNCHANGED request

\* The stage about to run on a structure of up to MaxFanOutModules modules.
InitFanOut ==
    /\ \E stage \in {"content", "quizzes", "transcripts"}, n \in 1..MaxFanOutModules :
          /\ pc = CASE stage = "content" -> "course_content_agent"
                    [] stage = "quizzes" -> "quiz_curator_agent"
                    [] OTHER -> "video_transcript_agent"
          /\ module_structure =
                IF stage = "content" THEN FanOutStructure(stage, n)
                ELSE AnnotatedStructure(FanOutStructure(stage, n))
          /\ course_content =
                IF stage = "content" THEN <<>>
                ELSE generated_content(
                        Batches(all_lessons(AnnotatedStructure(FanOutStructure(stage, n)))),
                        [b \in 1..((n + batch_size - 1) \div batch_size) |-> "good"])
    /\ prev = "START"
    /\ interrupted = FALSE
    /\ waiting = FALSE
    /\ research_findings = [learning_objectives |-> <<"objective 1">>]
    /\ xdp_content = [metadata |-> "XDP"]
    /\ quizzes = <<>>
    /\ course_metadata = NoneValue
    /\ approval_status = [c \in Checkpoints |-> "None"]
    /\ human_feedback =
          [k \in Checkpoints \cup {suggestion_key(c) : c \in Checkpoints} |->
              IF k \in Checkpoints THEN "" ELSE <<>>]
    /\ validation_results = NoResults
    /\ errors = <<>>
    /\ current_step = <<"xdp", "created">>
    /\ hist = HistInit
    /\ PoolIdle
    /\ request = RequestedCourse

NextFanOut ==
    \/ submit_batches
    \/ submit_quiz_tasks
    \/ submit_modules
    \/ \E t \in DOMAIN executor.status : worker_start(t)
    \/ \E t \in DOMAIN executor.status : worker_finish(t)
    \/ \E t \in DOMAIN executor.status : collect(t)
    \/ write_course_content
    \/ write_quizzes
    \/ write_video_transcripts

SpecFanOut == InitFanOut /\ [][NextFanOut]_vars

\* The threads are scheduled and the calls of the collaborator return or
\* raise: no enabled step of the fan-out is put off for ever.
SpecFanOutFair == SpecFanOut /\ WF_vars(NextFanOut)

(***************************************************************************)
(* The process ends while the run is suspended and a new process resumes   *)
(* the run.  create_course_builder_graph compiles the graph with a fresh   *)
(* MemorySaver, a checkpointer that lives in the memory of the process, so *)
(* the graph of the new process holds no checkpoint for the run and the    *)
(* run can only be started from its entry point with a new state.          *)
(***************************************************************************)
ProcessRestart ==
    /\ interrupted \/ waiting
    /\ pc' = "collect_user_input"
    /\ prev' = "START"
    /\ interrupted' = FALSE
    /\ waiting' = FALSE
    /\ research_findings' = NoneValue
    /\ module_structure' = NoneValue
    /\ xdp_content' = NoneValue
    /\ course_content' = <<>>
    /\ quizzes' = <<>>
    /\ course_metadata' = NoneValue
    /\ approval_status' = [c \in Checkpoints |-> "None"]
    /\ human_feedback' =
          [k \in Checkpoints \cup {suggestion_key(c) : c \in Checkpoints} |->
              IF k \in Checkpoints THEN "" ELSE <<>>]
    /\ validation_results' = NoResults
    /\ errors' = <<>>
    /\ current_step' = <<"workflow", "initialized">>
    /\ hist' = [HistInit EXCEPT !.last.outcome = "restarted"]
    /\ UNCHANGED pool
    /\ UNCHANGED request

NextRestart == Next \/ ProcessRestart

SpecRestart == Init /\ [][NextRestart]_vars

(***************************************************************************)
(* Properties of the workflow.                                             *)
(***************************************************************************)
\* The stage downstream of a checkpoint and the stage that generates its
\* artifact, as the properties name them.
DownstreamStage ==
    [structure |-> "xdp_agent", content |-> "quiz_curator_agent",
     quizzes |-> "finalize_course"]
GenerationStage ==
    [structure |-> "module_structure_agent", content |-> "course_content_agent",
     quizzes |-> "quiz_curator_agent"]

\* The review stage of `checkpoint` has returned after asking for a decision
\* whose approved value is `approved`.
Decided(checkpoint, approved) ==
    /\ prev = ReviewNode(checkpoint)
    /\ hist.last.asked
    /\ hist.last.decision.approval_status = approved

StageGraph ==
    {<<"collect_user_input", "researcher_agent">>,
     <<"researcher_agent", "module_structure_agent">>,
     <<"module_structure_agent", "validate_module_structure">>,
     <<"validate_module_structure", "xdp_agent">>,
     <<"validate_module_structure", "human_review_structure">>,
     <<"human_review_structure", "xdp_agent">>,
     <<"human_review_structure", "module_structure_agent">>,
     <<"xdp_agent", "course_content_agent">>,
     <<"course_content_agent", "validate_content">>,
     <<"validate_content", "quiz_curator_agent">>,
     <<"validate_content", "human_review_content">>,
     <<"human_review_content", "quiz_curator_agent">>,
     <<"human_review_content", "course_content_agent">>,
     <<"quiz_curator_agent", "validate_quizzes">>,
     <<"validate_quizzes", "finalize_course">>,
     <<"validate_quizzes", "human_review_quizzes">>,
     <<"human_review_quizzes", "finalize_course">>,
     <<"human_review_quizzes", "quiz_curator_agent">>,
     <<"finalize_course", "END">>}

\* C1: the run starts at collect_user_input, every stage is followed by a
\* stage the stage graph allows after it, and END follows finalize_course only.
StagesFollowTheGraph ==
    IF prev = "START" THEN pc = "collect_user_input"
    ELSE <<prev, pc>> \in StageGraph

\* A run that went back over the retry edge of the content review.
RetryEdgeTaken == prev = "human_review_content" /\ pc = "course_content_agent"

\* The thresholds of the three validation routers, on a validation result.
StructureThreshold(validation) ==
    RGeq(validation.quality_score, R(7, 10)) /\ validation.is_valid
ContentThreshold(validation) ==
    RGeq(validation.quality_score, R(8, 10)) /\ validation.flagged_lessons = <<>>
QuizThreshold(validation) ==
    /\ RGeq(validation.quality_score, R(8, 10))
    /\ RGeq(validation.objective_coverage, R(8, 10))

\* C2: after a validation stage the next stage is the downstream stage exactly
\* when the threshold holds for the fresh result and the review stage in every
\* other case; a router that finds no validation result answers 'review'.
ValidationRoutesByThreshold ==
    /\ prev = "validate_module_structure" =>
          pc = IF StructureThreshold(validation_results.module_structure)
               THEN "xdp_agent" ELSE "human_review_structure"
    /\ prev = "validate_content" =>
          pc = IF ContentThreshold(validation_results.content)
               THEN "quiz_curator_agent" ELSE "human_review_content"
    /\ prev = "validate_quizzes" =>
          pc = IF QuizThreshold(validation_results.quizzes)
               THEN "finalize_course" ELSE "human_review_quizzes"
    /\ route_after_structure_validation(NoResults) = "review"
    /\ route_after_content_validation(NoResults) = "review"
    /\ route_after_quiz_validation(NoResults) = "review"

\* Content of sufficient average quality that still has a flagged lesson goes to
\* the review.
FlaggedContentReviewed ==
    /\ prev = "validate_content"
    /\ RGeq(validation_results.content.quality_score, R(8, 10))
    /\ validation_results.content.flagged_lessons # <<>>
    /\ pc = "human_review_content"

\* C3: a review entered undecided that receives approved = true returns with
\* the status true and current_step '<checkpoint>_approved', and the downstream
\* stage is the next stage.
ApprovalGoesDownstream ==
    \A c \in Checkpoints :
        Decided(c, "True") =>
            /\ approval_status[c] = "True"
            /\ current_step = <<c, "approved">>
            /\ pc = DownstreamStage[c]

QuizzesApproved == Decided("quizzes", "True") /\ ~interrupted

\* C4: a review entered undecided that receives approved = false with text F
\* and suggestions S returns with the status false, current_step
\* '<checkpoint>_rejected', the stored text F and the stored suggestions S, and
\* the generation stage is the next stage.
RejectionStoresFeedback ==
    \A c \in Checkpoints :
        Decided(c, "False") =>
            /\ approval_status[c] = "False"
            /\ current_step = <<c, "rejected">>
            /\ human_feedback[c] = hist.last.decision.feedback
            /\ human_feedback[suggestion_key(c)] = hist.last.decision.suggestions
            /\ pc = GenerationStage[c]

\* C5: a decision with approved = null is an implicit approval: the downstream
\* stage is the next stage, never the generation stage, whatever the text says.
NullDecisionGoesDownstream ==
    \A c \in Checkpoints :
        Decided(c, "None") =>
            /\ approval_status[c] = "True"
            /\ pc = DownstreamStage[c]
            /\ pc # GenerationStage[c]

NullDecisionSayingReject ==
    /\ Decided("content", "None")
    /\ ContainsReject(lower(human_feedback.content))
    /\ pc = "quiz_curator_agent"

\* C6: a review stage asks for a decision exactly when the status is undecided
\* on entry; entered with the status false it returns at once and leaves the
\* status, the feedback text, the suggestions and the artifacts as they were.
ReviewAsksOnlyWhenUndecided ==
    [][\A c \in Checkpoints :
          Running(ReviewNode(c)) =>
              /\ waiting' <=> (approval_status[c] = "None")
              /\ approval_status[c] = "False" =>
                    /\ prev' = ReviewNode(c)
                    /\ approval_status' = approval_status
                    /\ human_feedback' = human_feedback
                    /\ artifacts' = artifacts]_vars

PassedThroughRejected ==
    \E c \in Checkpoints :
        /\ prev = ReviewNode(c)
        /\ ~hist.last.asked
        /\ hist.last.entry_status = "False"

\* C7: a generation stage that regenerates its artifact successfully after a
\* rejection returns with the status undecided.
RegenerationResetsStatus ==
    \A c \in Checkpoints :
        (/\ prev = GenerationStage[c]
         /\ hist.last.outcome = "ok"
         /\ hist.last.after_rejection) => approval_status[c] = "None"

ContentRegenerated ==
    /\ prev = "course_content_agent"
    /\ hist.last.outcome = "ok"
    /\ hist.last.after_rejection
    /\ approval_status.content = "None"

\* C8: between stages the status of a checkpoint is undecided exactly when no
\* human decision for it was completed since its artifact was last generated.
UndecidedIffNoDecisionSinceGeneration ==
    \A c \in Checkpoints :
        ~waiting => (approval_status[c] = "None" <=> ~hist.decided_since[c])

\* C9: a generation stage is reached over a retry edge only after a human
\* rejected at that checkpoint since the stage last ran.
RetryNeedsNewRejection ==
    \A c \in Checkpoints :
        (prev = ReviewNode(c) /\ pc = GenerationStage[c]) => hist.reject_since_run[c]

\* C10: the run is suspended only in or after a review stage that was entered
\* with the status undecided.
SuspendsOnlyWhenUndecided ==
    (waiting \/ interrupted) =>
        /\ \E c \in Checkpoints : ReviewNode(c) \in {pc, prev}
        /\ hist.last.entry_status = "None"

\* C11: a run resumed after the process ended during a suspension is at the
\* review stage it was suspended in or at the stage that follows it, with the
\* state of the suspension.
ResumeAfterTerminationKeepsState ==
    hist.last.outcome = "restarted" =>
        /\ \E c \in Checkpoints : ReviewNode(c) \in {pc, prev}
        /\ current_step # <<"workflow", "initialized">>

\* The structure has the requested number of modules and every module has a
\* lesson.
CompleteStructure(structure) ==
    /\ Truthy(structure)
    /\ Len(structure.modules) = Parameters.number_of_modules
    /\ \A i \in DOMAIN structure.modules : Len(structure.modules[i].lessons) > 0

\* C12: a structure with the requested number of modules, each with at least
\* one lesson, passes the structure gate: xdp_agent follows its validation.
CompleteStructurePassesGate ==
    (prev = "validate_module_structure" /\ CompleteStructure(module_structure))
        => pc = "xdp_agent"

\* C15: every module of a structure that module_structure_agent wrote to the
\* state has at least one lesson.
WrittenModulesHaveLessons ==
    Truthy(module_structure) =>
        \A i \in DOMAIN module_structure.modules :
            Len(module_structure.modules[i].lessons) > 0

\* C19: every quality_score stored in validation_results lies in [0, 1].
StoredScoresInUnitInterval ==
    \A k \in DOMAIN validation_results :
        /\ RGeq(validation_results[k].quality_score, Zero)
        /\ RGeq(One, validation_results[k].quality_score)
\* The score of a structure as a blend: half for having a module with
\* lessons, half in proportion to the modules that have lessons.
BlendedStructureScore(structure) ==
    LET modules == structure.modules
        populated == Cardinality({i \in DOMAIN modules : Len(modules[i].lessons) > 0})
    IN  IF populated > 0
        THEN RAdd(R(1, 2), RMul(R(1, 2), R(populated, Len(modules))))
        ELSE Zero

\* C13: the quality_score of a structure is 0.5 + 0.5 * (modules with a
\* lesson / modules) when some module has lessons, and 0 when none has.
StructureScoreIsBlend ==
    (prev = "validate_module_structure" /\ Truthy(module_structure)) =>
        validation_results.module_structure.quality_score =
            BlendedStructureScore(module_structure)

\* C14: the structure validator reports is_valid false exactly when the
\* structure is missing or some module has no lessons, and records an issue
\* whenever the number of modules differs from the requested number; a count
\* or quiz-plan mismatch alone leaves is_valid true.
StructureValidityByLessonsOnly ==
    prev = "validate_module_structure" =>
        LET result == validation_results.module_structure
            missing == ~Truthy(module_structure)
            lessonless ==
                /\ ~missing
                /\ \E i \in DOMAIN module_structure.modules :
                      Len(module_structure.modules[i].lessons) = 0
            miscounted ==
                /\ ~missing
                /\ Len(module_structure.modules) # Parameters.number_of_modules
        IN  /\ result.is_valid = ~(missing \/ lessonless)
            /\ miscounted =>
                  \E k \in DOMAIN result.issues :
                      result.issues[k].issue = "Expected modules"

\* A structure with a module too many and a quiz plan that differs from the
\* request, every module with lessons, was validated and found valid.
MismatchedStructureValid ==
    /\ prev = "validate_module_structure"
    /\ Truthy(module_structure)
    /\ Len(module_structure.modules) > Parameters.number_of_modules
    /\ \A i \in DOMAIN module_structure.modules :
          /\ Len(module_structure.modules[i].lessons) > 0
          /\ module_structure.modules[i].quiz_plan.graded #
                Parameters.graded_quizzes_per_module
    /\ validation_results.module_structure.is_valid
    /\ Len(validation_results.module_structure.issues) > 1

\* Hundredths a lesson earns: 33 for each of introduction, main_content and
\* summary longer than 50 characters, 10 for examples, 10 for exercises.
LessonHundredths(lesson) ==
    33 * ((IF lesson.introduction > 50 THEN 1 ELSE 0)
          + (IF lesson.main_content > 50 THEN 1 ELSE 0)
          + (IF lesson.summary > 50 THEN 1 ELSE 0))
    + (IF lesson.examples # 0 THEN 10 ELSE 0)
    + (IF lesson.practice_exercises # 0 THEN 10 ELSE 0)

\* C16: for a non-empty course_content every lesson is scored 0.33 per long
\* required field plus 0.1 for examples plus 0.1 for exercises, without a
\* clamp; quality_score is the mean of the lesson scores and the flagged
\* lessons are exactly those scoring below 0.8.
ContentScoredByFields ==
    (prev = "validate_content" /\ course_content # <<>>) =>
        LET result == validation_results.content
            hundredths == [i \in DOMAIN course_content |->
                              LessonHundredths(course_content[i])]
        IN  /\ DOMAIN result.lesson_scores = DOMAIN course_content
            /\ \A i \in DOMAIN course_content :
                  /\ result.lesson_scores[i].lesson_id = course_content[i].lesson_id
                  /\ result.lesson_scores[i].score = R(hundredths[i], 100)
                  /\ hundredths[i] <= 119
            /\ result.quality_score =
                  R(SumSeq(hundredths), 100 * Len(course_content))
            /\ {result.flagged_lessons[k] : k \in DOMAIN result.flagged_lessons} =
                  {course_content[i].lesson_id :
                      i \in {j \in DOMAIN course_content : hundredths[j] < 80}}

\* A lesson with a 60-character introduction, a 20-character main_content, a
\* 10-character summary, two examples and no exercises scored 0.43 and was
\* flagged, next to a lesson with the full score 1.19 that was not.
ExampleLessonScored ==
    /\ prev = "validate_content"
    /\ Len(course_content) = 2
    /\ course_content[1].introduction = 60
    /\ course_content[1].main_content = 20
    /\ course_content[1].summary = 10
    /\ course_content[1].examples = 2
    /\ course_content[1].practice_exercises = 0
    /\ validation_results.content.lesson_scores[1].score = R(43, 100)
    /\ validation_results.content.lesson_scores[2].score = R(119, 100)
    /\ validation_results.content.quality_score = R(81, 100)
    /\ validation_results.content.flagged_lessons =
          <<course_content[1].lesson_id>>

\* Hundredths a quiz earns before the division by its number of questions:
\* 10 per question text longer than 20 characters, 10 per correct answer, 5
\* per explanation.
QuizHundredths(quiz) ==
    SumSeq([k \in DOMAIN quiz.questions |->
               (IF quiz.questions[k].question > 20 THEN 10 ELSE 0)
               + (IF quiz.questions[k].correct_answer THEN 10 ELSE 0)
               + (IF quiz.questions[k].explanation THEN 5 ELSE 0)])

\* The per-quiz score is below 0.8; a quiz without questions has earned
\* nothing and counts as below.
QuizBelowThreshold(quiz) ==
    \/ quiz.questions = <<>>
    \/ RLess(RMin(R(QuizHundredths(quiz), 100 * Len(quiz.questions)), One), R(8, 10))

\* C17: flagged_quizzes holds exactly the quizzes whose per-quiz score is
\* below 0.8, the quizzes without questions included.
FlaggedQuizzesAreThoseBelowThreshold ==
    (prev = "validate_quizzes" /\ quizzes # <<>>) =>
        LET result == validation_results.quizzes
        IN  {result.flagged_quizzes[k] : k \in DOMAIN result.flagged_quizzes} =
                {quizzes[i].quiz_id :
                    i \in {j \in DOMAIN quizzes : QuizBelowThreshold(quizzes[j])}}

\* The objective coverage of a quiz list: objectives that questions refer to
\* over the objectives of the research findings, a half when no objective
\* was recorded.
ClaimedObjectiveCoverage(quizList, findings) ==
    LET referenced ==
            UNION {{quizList[i].questions[k].learning_objective :
                       k \in DOMAIN quizList[i].questions} : i \in DOMAIN quizList}
                \ {""}
        recorded == IF Truthy(findings) THEN Len(findings.learning_objectives) ELSE 0
    IN  IF recorded > 0 THEN R(Cardinality(referenced), recorded) ELSE R(1, 2)

\* C18: the quiz quality_score is the share of questions with a text longer
\* than 20 characters, and objective_coverage is the referenced objectives
\* over the recorded ones, or 0.5 when none was recorded, be the list empty
\* or the research findings absent.
QuizScoresAsShares ==
    (prev = "validate_quizzes" /\ quizzes # <<>>) =>
        LET result == validation_results.quizzes
            questions == Flatten([i \in DOMAIN quizzes |-> quizzes[i].questions])
            long == Cardinality({k \in DOMAIN questions : questions[k].question > 20})
        IN  /\ questions # <<>> => result.quality_score = R(long, Len(questions))
            /\ result.objective_coverage =
                  ClaimedObjectiveCoverage(quizzes, research_findings)

\* The validation stages by the key of validation_results they write, and
\* the result of each validator on the current state.
ValidationStage ==
    [module_structure |-> "validate_module_structure",
     content |-> "validate_content",
     quizzes |-> "validate_quizzes"]

ValidatorResult ==
    [module_structure |-> validate_module_structure(module_structure, Parameters),
     content |-> validate_content(course_content),
     quizzes |-> validate_quizzes(quizzes, research_findings)]

\* C20: a validation stage leaves everything it reads as it was, replaces
\* only the entry of validation_results of its own checkpoint, and the entry
\* it stores is what the validator returns on the state it read, which is
\* also the state a second run would read, whatever an earlier pass stored.
ValidatorsArePure ==
    [][\A v \in DOMAIN ValidationStage :
          (pc = ValidationStage[v] /\ pc' # pc) =>
              /\ UNCHANGED <<artifacts, approval_status, human_feedback, errors,
                             current_step>>
              /\ DOMAIN validation_results' = DOMAIN validation_results \cup {v}
              /\ \A k \in DOMAIN validation_results \ {v} :
                    validation_results'[k] = validation_results[k]
              /\ validation_results'[v] = ValidatorResult[v]]_vars

\* The structure was validated a second time, after a human rejected the
\* first one and a complete structure was generated, and the stored result is
\* the valid one of the second pass.
StructureValidatedAgain ==
    /\ prev = "validate_module_structure"
    /\ human_feedback.structure # ""
    /\ approval_status.structure = "None"
    /\ validation_results.module_structure.is_valid
    /\ validation_results.module_structure.issues = <<>>

\* C22: when quiz_curator_agent has completed, quizzes holds one quiz for
\* every planned quiz task, so its length is the sum over the modules of the
\* planned graded and practice counts, whichever tasks failed.
QuizzesStructurallyComplete ==
    (prev = "quiz_curator_agent" /\ hist.last.outcome = "ok") =>
        /\ Len(quizzes) =
              SumSeq([i \in DOMAIN module_structure.modules |->
                         module_structure.modules[i].quiz_plan.graded
                         + module_structure.modules[i].quiz_plan.practice])
        /\ \A t \in DOMAIN quiz_tasks(module_structure) :
              Cardinality({k \in DOMAIN quizzes :
                  quizzes[k].quiz_id = QuizId(quiz_tasks(module_structure)[t])}) = 1

\* C28: a run in which a stage failure was recorded ends with a failed
\* current_step and with errors; it never ends as course_finalized.
FailedRunEndsFailed ==
    (pc = "END" /\ errors # <<>>) =>
        /\ current_step[2] = "failed"
        /\ current_step # <<"course", "finalized">>

ArtifactsWrittenByProducerOnly ==
    [][/\ research_findings' # research_findings => pc = "researcher_agent"
       /\ module_structure' # module_structure => pc = "module_structure_agent"
       /\ xdp_content' # xdp_content => pc = "xdp_agent"
       /\ course_content' # course_content => pc = "course_content_agent"
       /\ quizzes' # quizzes => pc = "quiz_curator_agent"]_vars

\* The stage about to run lacks the input it requires.
MissingInput ==
    \/ pc = "module_structure_agent" /\ ~Truthy(research_findings)
    \/ pc \in {"xdp_agent", "course_content_agent"} /\ ~Truthy(module_structure)
    \/ /\ pc = "quiz_curator_agent"
       /\ ~Truthy(module_structure) \/ course_content = <<>>

\* C26: a stage invoked without its required input appends an error, leaves
\* the artifacts as they are, and returns with a failed current_step.
MissingInputFailsTheStage ==
    [][(MissingInput /\ pc \in GenerationNodes /\ pc' # pc) =>
          /\ Len(errors') = Len(errors) + 1
          /\ UNCHANGED artifacts
          /\ current_step'[2] = "failed"]_vars

\* C27: a failure inside a generation stage stays inside it: the stage has
\* returned with the error in errors and a failed current_step, and the graph
\* goes on with the stage that follows.
StageFailureIsContained ==
    (prev \in GenerationNodes /\ hist.last.outcome = "failed") =>
        /\ pc = Edges[prev]
        /\ errors # <<>>
        /\ current_step[2] = "failed"

\* The list the stage of the fan-out writes to the state.
FinalList ==
    CASE executor.stage = "content" -> course_content
      [] executor.stage = "quizzes" -> quizzes
      [] OTHER -> video_transcripts

Occurrences(list, x) == Cardinality({k \in DOMAIN list : list[k] = x})

\* What the tasks return, task after task.
ReturnedInTaskOrder ==
    Flatten([t \in DOMAIN executor.tasks |->
                future_result(executor.stage, executor.tasks[t], t,
                              executor.responses[t]).value])

AllTasksSucceeded ==
    \A t \in DOMAIN executor.tasks :
        ~future_result(executor.stage, executor.tasks[t], t,
                       executor.responses[t]).error

\* C21: in a fan-out of N >= 1 tasks at most min(cap, N) tasks are in flight
\* at any moment, every task is executed in the end, and when all tasks
\* succeed the result of every task is in the final list exactly once.
FanOutBoundedAndComplete ==
    /\ [](executor.stage # "none" =>
             Cardinality(InFlight) <=
                Min(WorkerCap[executor.stage], Len(executor.tasks)))
    /\ []((executor.joined /\ AllTasksSucceeded) =>
             /\ Len(FinalList) = Len(ReturnedInTaskOrder)
             /\ \A k \in DOMAIN ReturnedInTaskOrder :
                   Occurrences(FinalList, ReturnedInTaskOrder[k]) = 1)
    /\ (executor.stage # "none") ~>
          (\A t \in DOMAIN executor.status : executor.status[t] = "collected")

\* Six quiz tasks went through an executor of five threads and the six
\* quizzes are in the list the stage wrote.
SixQuizzesThroughFiveWorkers ==
    /\ executor.stage = "quizzes"
    /\ executor.joined
    /\ Len(executor.tasks) = quiz_cap + 1
    /\ AllTasksSucceeded
    /\ Len(quizzes) = quiz_cap + 1

\* What there is in the final list for the batches, batch after batch.
ExpectedOfBatches ==
    Flatten([b \in DOMAIN executor.tasks |->
                batch_content(executor.tasks[b], b, executor.responses[b])])

\* C23: when the collaborator fails or answers nothing usable for a batch,
\* course_content has one placeholder for every lesson of the batch, what the
\* other batches gave is all there once, and course_content_agent has
\* returned to the graph.
FailedBatchGetsPlaceholders ==
    (executor.stage = "content" /\ executor.joined) =>
        /\ pc = "validate_content"
        /\ Len(course_content) = Len(ExpectedOfBatches)
        /\ \A k \in DOMAIN ExpectedOfBatches :
              Occurrences(course_content, ExpectedOfBatches[k]) = 1
        /\ \A b \in DOMAIN executor.tasks :
              executor.responses[b] \in {"empty", "raise"} =>
                 \A k \in DOMAIN executor.tasks[b] :
                    Occurrences(course_content,
                                FallbackLesson(executor.tasks[b][k], b, k - 1)) = 1

\* The collaborator raised for the first batch, of four lessons, and answered
\* the other batch; course_content has the four placeholders and the lessons
\* of the other batch.
FirstBatchFailed ==
    /\ executor.stage = "content"
    /\ executor.joined
    /\ Len(executor.tasks) = 2
    /\ Len(executor.tasks[1]) = batch_size
    /\ executor.responses = <<"raise", "good">>
    /\ Len(course_content) = batch_size + Len(executor.tasks[2])
    /\ \A k \in 1..batch_size :
          Occurrences(course_content,
                      FallbackLesson(executor.tasks[1][k], 1, k - 1)) = 1

\* The list the stage would write had it collected the futures in the order
\* of the tasks.
WrittenInTaskOrder ==
    LET collected == Flatten([t \in DOMAIN executor.tasks |->
                                merged(executor.stage, executor.tasks[t], t,
                                       executor.responses[t])])
    IN  IF executor.stage = "quizzes" THEN sorted_quizzes(collected)
        ELSE sorted_lessons(collected)

\* C24: the list a stage writes is the same for every order in which its
\* tasks complete, the state and the answers of the collaborator being the
\* same.
FinalOrderIndependentOfCompletion ==
    executor.joined => FinalList = WrittenInTaskOrder

\* C25: a worker writes neither to the workflow state nor to the list of
\* results nor to anything else the workers share; what a task returns is
\* added to the list by the stage.
WorkersWriteNothingShared ==
    [][(\E t \in DOMAIN executor.status :
           /\ executor'.status[t] # executor.status[t]
           /\ executor'.status[t] \in {"running", "finished"}) =>
          /\ UNCHANGED <<artifacts, approval_status, human_feedback,
                         validation_results, errors, current_step,
                         video_transcripts, progress_log>>
          /\ executor'.collected = executor.collected]_vars

\* The labels the routers may return.
ValidationLabels == {"pass", "review"}
ReviewLabels == {"approve", "reject", "continue"}

\* C33: in every reachable state every router returns a label the graph has
\* a destination for: a validation router 'pass' or 'review', a review router
\* 'approve', 'reject' or 'continue'.
RoutersReturnRegisteredLabels ==
    /\ route_after_structure_validation(validation_results) \in
          ValidationLabels \cap DOMAIN ConditionalEdges.validate_module_structure
    /\ route_after_content_validation(validation_results) \in
          ValidationLabels \cap DOMAIN ConditionalEdges.validate_content
    /\ route_after_quiz_validation(validation_results) \in
          ValidationLabels \cap DOMAIN ConditionalEdges.validate_quizzes
    /\ \A c \in Checkpoints :
          ReviewRoute(c, approval_status, human_feedback) \in
             ReviewLabels \cap DOMAIN ConditionalEdges[ReviewNode(c)]

\* The router of the quiz review has answered 'reject' and the graph has
\* gone to the destination of the label.
RejectedQuizzesRouted ==
    /\ prev = "human_review_quizzes"
    /\ pc = "quiz_curator_agent"
    /\ route_after_quiz_review(approval_status, human_feedback) = "reject"

\* The validation stage of every checkpoint.
CheckpointValidation ==
    [structure |-> "validate_module_structure", content |-> "validate_content",
     quizzes |-> "validate_quizzes"]

\* C35: the stage downstream of a checkpoint runs after the review stage only
\* with the approval of a human recorded, and after the validation stage only
\* on an artifact generated since the last decision of a human; an artifact
\* a human rejected is never what the downstream stage finds.
RejectedVersionNotConsumed ==
    \A c \in Checkpoints :
        (pc = DownstreamStage[c] /\ prev \in {ReviewNode(c), CheckpointValidation[c]}) =>
            \/ prev = ReviewNode(c) /\ approval_status[c] = "True"
            \/ prev = CheckpointValidation[c] /\ ~hist.decided_since[c]

\* The content a human rejected was generated again, and it is the new
\* content, which passed the validation, that the quiz stage is about to read.
RegeneratedContentPassed ==
    /\ pc = "quiz_curator_agent"
    /\ prev = "validate_content"
    /\ human_feedback.content = "Please REJECT this"
    /\ ~hist.decided_since.content
    /\ approval_status.content = "None"

\* C36: a review stage returns with the status of its checkpoint true or
\* false, and its router does not answer 'continue'.
ReviewReturnsDecided ==
    [][\A c \in Checkpoints :
          (pc = ReviewNode(c) /\ pc' # pc) =>
              /\ approval_status'[c] \in {"True", "False"}
              /\ ReviewRoute(c, approval_status', human_feedback') # "continue"]_vars

\* The human edited the structure without approving or rejecting it, and the
\* review returned with the status true.
EditedStructureDecided ==
    /\ Decided("structure", "None")
    /\ approval_status.structure = "True"
    /\ current_step = <<"structure", "edited">>

\* C37: a decision at a checkpoint changes neither the status, the feedback
\* text nor the suggestions of the two other checkpoints, nor the artifacts,
\* validation_results or errors.
DecisionTouchesOwnCheckpointOnly ==
    [][\A c \in Checkpoints :
          (pc = ReviewNode(c) /\ waiting /\ ~waiting') =>
              /\ \A o \in Checkpoints \ {c} :
                    /\ approval_status'[o] = approval_status[o]
                    /\ human_feedback'[o] = human_feedback[o]
                    /\ human_feedback'[suggestion_key(o)] =
                          human_feedback[suggestion_key(o)]
              /\ UNCHANGED <<artifacts, validation_results, errors>>]_vars

\* The content was rejected with suggestions after the structure had been
\* approved; the status and the suggestions of the structure are as they were.
ContentRejectedAfterStructureApproved ==
    /\ Decided("content", "False")
    /\ hist.last.decision.suggestions # <<>>
    /\ human_feedback.content_suggestions # <<>>
    /\ approval_status.structure = "True"
    /\ human_feedback.structure = "Approved"
    /\ human_feedback.structure_suggestions = <<>>

\* C39: validate_quizzes gives every quiz that has a question a score of at
\* most 0.25 and lists it in flagged_quizzes, and the router after the quiz
\* validation answers the same with the list and without it.
QuizScoresAtMostAQuarter ==
    (prev = "validate_quizzes" /\ quizzes # <<>>) =>
        LET result == validation_results.quizzes
        IN  /\ \A i \in DOMAIN quizzes :
                  quizzes[i].questions # <<>> =>
                     /\ \E k \in DOMAIN result.quiz_scores :
                           result.quiz_scores[k].quiz_id = quizzes[i].quiz_id
                     /\ \A k \in DOMAIN result.quiz_scores :
                           result.quiz_scores[k].quiz_id = quizzes[i].quiz_id =>
                              RGeq(R(1, 4), result.quiz_scores[k].score)
                     /\ \E k \in DOMAIN result.flagged_quizzes :
                           result.flagged_quizzes[k] = quizzes[i].quiz_id
            /\ route_after_quiz_validation(validation_results) =
                  route_after_quiz_validation(
                     [validation_results EXCEPT !.quizzes.flagged_quizzes = <<>>])
            /\ pc = ConditionalEdges.validate_quizzes[
                       route_after_quiz_validation(validation_results)]

\* A quiz whose only question is complete has the score 0.25 and is flagged,
\* and the quizzes pass the validation.
FlaggedQuizzesPassed ==
    /\ prev = "validate_quizzes"
    /\ pc = "finalize_course"
    /\ validation_results.quizzes.flagged_quizzes # <<>>
    /\ \E k \in DOMAIN validation_results.quizzes.quiz_scores :
          validation_results.quizzes.quiz_scores[k].score = R(1, 4)

\* C38: a content stage that finds no lesson in the module structure, and a
\* quiz stage whose quiz plans total zero quizzes, end with the '*_failed'
\* label, append an error and leave the artifact as it was (an empty list if
\* none existed); the validation that follows routes to the human review.
NothingToFanOutFailsTheStage ==
    [][/\ (/\ Running("course_content_agent")
           /\ Truthy(module_structure)
           /\ all_lessons(module_structure) = <<>>
           /\ pc' # pc) =>
              /\ current_step' = <<"course_content", "failed">>
              /\ Len(errors') = Len(errors) + 1
              /\ course_content' = course_content
              /\ pc' = "validate_content"
       /\ (/\ Running("quiz_curator_agent")
           /\ Truthy(module_structure)
           /\ course_content # <<>>
           /\ quiz_tasks(module_structure) = <<>>
           /\ pc' # pc) =>
              /\ current_step' = <<"quizzes", "failed">>
              /\ Len(errors') = Len(errors) + 1
              /\ quizzes' = quizzes
              /\ pc' = "validate_quizzes"
       /\ (/\ Running("validate_content")
           /\ prev = "course_content_agent"
           /\ current_step = <<"course_content", "failed">>
           /\ course_content = <<>>
           /\ pc' # pc) => pc' = "human_review_content"
       /\ (/\ Running("validate_quizzes")
           /\ prev = "quiz_curator_agent"
           /\ current_step = <<"quizzes", "failed">>
           /\ quizzes = <<>>
           /\ pc' # pc) => pc' = "human_review_quizzes"]_vars

\* The quiz stage had content and no quiz task, failed, and its validation sent
\* the run to the review of the quizzes.
QuizStageWithoutTasksReviewed ==
    /\ prev = "validate_quizzes"
    /\ pc = "human_review_quizzes"
    /\ current_step = <<"quizzes", "failed">>
    /\ quizzes = <<>>
    /\ errors = <<"Quiz curator agent error">>
    /\ course_content # <<>>
    /\ quiz_tasks(module_structure) = <<>>

(***************************************************************************)
(* ui/progress_display.py: the progress of a run, computed from the lines  *)
(* its stages appended to the progress file.                               *)
(***************************************************************************)
WORKFLOW_STEPS ==
    <<"collect_user_input", "researcher_agent", "module_structure_agent",
      "validate_module_structure", "human_review_structure", "xdp_agent",
      "course_content_agent", "validate_content", "human_review_content",
      "quiz_curator_agent", "validate_quizzes", "human_review_quizzes",
      "video_transcript_agent", "finalize_course">>

\* The first workflow step that contains the normalized step name or is
\* contained in it, for the names ProgressTracker writes: a node name, or
\* "interrupt_" and the type of the review.
matched_workflow_step(step_name) ==
    CASE step_name = "interrupt_structure" -> "module_structure_agent"
      [] step_name = "interrupt_content" -> "course_content_agent"
      [] step_name = "interrupt_quizzes" -> "validate_quizzes"
      [] OTHER -> step_name

\* step_status_map[workflow_step] after the loop over the lines: the first
\* line of the step sets the status, a later line replaces it if its status is
\* completed, failed or in_progress.
step_status(steps, workflow_step) ==
    LET matching == {i \in DOMAIN steps :
                        matched_workflow_step(steps[i].step) = workflow_step}
        replacing == {i \in matching :
                        steps[i].status \in {"completed", "failed", "in_progress"}}
        first == CHOOSE i \in matching : \A j \in matching : i <= j
        last == CHOOSE i \in replacing : \A j \in replacing : i >= j
    IN  IF matching = {} THEN "absent"
        ELSE IF replacing = {} THEN steps[first].status
        ELSE steps[last].status

\* calculate_workflow_progress(thread_id)["percentage"] for the lines `steps`
\* and the active interrupt ("none" for no interrupt).
calculate_workflow_progress(steps, active_interrupt_type) ==
    IF steps = <<>> THEN Zero
    ELSE
    LET completed_steps ==
            {i \in DOMAIN WORKFLOW_STEPS :
                step_status(steps, WORKFLOW_STEPS[i]) = "completed"}
        max_completed_index ==
            IF completed_steps = {} THEN -1
            ELSE (CHOOSE i \in completed_steps : \A j \in completed_steps : i >= j) - 1
        interrupt_step ==
            CASE active_interrupt_type = "structure" -> "human_review_structure"
              [] active_interrupt_type = "content" -> "human_review_content"
              [] active_interrupt_type = "quizzes" -> "human_review_quizzes"
              [] OTHER -> "none"
        completed_count ==
            IF \E i \in completed_steps : WORKFLOW_STEPS[i] = interrupt_step
            THEN Cardinality(completed_steps) - 1
            ELSE Cardinality(completed_steps)
        progress_index == Max(max_completed_index + 1, completed_count)
    IN  RMin(R(progress_index, Len(WORKFLOW_STEPS)), One)

\* The nodes of the graph that write to the progress file, and those whose
\* failure is written to it.
LoggingNodes ==
    {"module_structure_agent", "xdp_agent", "course_content_agent",
     "quiz_curator_agent", "finalize_course"}
ErrorLoggingNodes == LoggingNodes \ {"finalize_course"}

\* Lines of the progress file a run of the model may write.
MaxLogEntries == 7

\* The logging nodes the graph may run next after `node` returned: through
\* the validation that follows it and the review of a failed validation.
NextLoggingNodes(node) ==
    LET after == Edges[node]
    IN  IF after \notin DOMAIN ConditionalEdges THEN {after}
        ELSE LET review == ConditionalEdges[after].review
             IN  {ConditionalEdges[after].pass}
                 \cup {ConditionalEdges[review][label] :
                          label \in DOMAIN ConditionalEdges[review]}

\* ProgressTracker.log_node_progress(node, ...)
log_node_progress(node) ==
    /\ Running(node)
    /\ Len(progress_log) < MaxLogEntries
    /\ progress_log' = Append(progress_log, LogEntry(node, "in_progress"))
    /\ UNCHANGED <<pc, prev, interrupted, waiting, artifacts, approval_status,
                   human_feedback, validation_results, errors, current_step,
                   hist, executor, video_transcripts>>
    /\ UNCHANGED request

\* ProgressTracker.log_node_complete(node, ...), the last line a stage writes
\* before it returns; every stage has written a progress line before it.
log_node_complete(node) ==
    /\ Running(node)
    /\ Len(progress_log) < MaxLogEntries
    /\ progress_log # <<>>
    /\ progress_log[Len(progress_log)] = LogEntry(node, "in_progress")
    /\ progress_log' = Append(progress_log, LogEntry(node, "completed"))
    /\ pc' \in NextLoggingNodes(node)
    /\ prev' = node
    /\ UNCHANGED <<interrupted, waiting, artifacts, approval_status,
                   human_feedback, validation_results, errors, current_step,
                   hist, executor, video_transcripts>>
    /\ UNCHANGED request

\* ProgressTracker.log_node_error(node, ...), written by the early return or
\* the handler of a stage before it returns.
log_node_error(node) ==
    /\ Running(node)
    /\ node \in ErrorLoggingNodes
    /\ Len(progress_log) < MaxLogEntries
    /\ progress_log' = Append(progress_log, LogEntry(node, "failed"))
    /\ pc' \in NextLoggingNodes(node)
    /\ prev' = node
    /\ UNCHANGED <<interrupted, waiting, artifacts, approval_status,
                   human_feedback, validation_results, errors, current_step,
                   hist, executor, video_transcripts>>
    /\ UNCHANGED request

\* A run at its first logging stage, with nothing in the progress file.
InitProgress ==
    /\ pc = "module_structure_agent"
    /\ prev = "researcher_agent"
    /\ interrupted = FALSE
    /\ waiting = FALSE
    /\ research_findings \in ResearchFindings
    /\ module_structure = NoneValue
    /\ xdp_content = NoneValue
    /\ course_content = <<>>
    /\ quizzes = <<>>
    /\ course_metadata = NoneValue
    /\ approval_status = [c \in Checkpoints |-> "None"]
    /\ human_feedback =
          [k \in Checkpoints \cup {suggestion_key(c) : c \in Checkpoints} |->
              IF k \in Checkpoints THEN "" ELSE <<>>]
    /\ validation_results = NoResults
    /\ errors = <<>>
    /\ current_step = <<"research", "completed">>
    /\ hist = HistInit
    /\ PoolIdle
    /\ request = RequestedCourse

NextProgress ==
    \/ \E node \in LoggingNodes : log_node_progress(node)
    \/ \E node \in LoggingNodes : log_node_complete(node)
    \/ \E node \in LoggingNodes : log_node_error(node)

SpecProgress == InitProgress /\ [][NextProgress]_vars

InterruptTypes == {"none", "structure", "content", "quizzes"}

\* C32: the percentage of calculate_workflow_progress does not decrease when a
\* line is appended to the progress file of a run, whatever interrupt is
\* active.
ProgressNeverDecreases ==
    [][\A type \in InterruptTypes :
          RGeq(calculate_workflow_progress(progress_log', type),
               calculate_workflow_progress(progress_log, type))]_vars

\* The percentage lies in [0, 1].
ProgressInUnitInterval ==
    \A type \in InterruptTypes :
       /\ RGeq(calculate_workflow_progress(progress_log, type), Zero)
       /\ RGeq(One, calculate_workflow_progress(progress_log, type))

(***************************************************************************)
(* Runs of the graph for a course of any requested size in which every     *)
(* call of a collaborator returns and the human approves at every review.  *)
(***************************************************************************)
\* The largest number of modules a run of these specifications asks for.
MaxModulesRequested == 3

CourseRequests ==
    {CourseRequest(modules, graded, practice, FALSE) :
        modules \in 1..MaxModulesRequested, graded \in 0..1, practice \in 0..1}

InitRequests ==
    /\ pc = "collect_user_input"
    /\ prev = "START"
    /\ interrupted = FALSE
    /\ waiting = FALSE
    /\ research_findings = NoneValue
    /\ module_structure = NoneValue
    /\ xdp_content = NoneValue
    /\ course_content = <<>>
    /\ quizzes = <<>>
    /\ course_metadata = NoneValue
    /\ approval_status = [c \in Checkpoints |-> "None"]
    /\ human_feedback =
          [k \in Checkpoints \cup {suggestion_key(c) : c \in Checkpoints} |->
              IF k \in Checkpoints THEN "" ELSE <<>>]
    /\ validation_results = NoResults
    /\ errors = <<>>
    /\ current_step = <<"workflow", "initialized">>
    /\ hist = HistInit
    /\ PoolIdle
    /\ request \in CourseRequests

\* The stage at pc has what it needs and reaches its calls of the chain and
\* of ResultsSaver.
StageReachesItsCalls ==
    CASE pc = "researcher_agent" -> TRUE
      [] pc = "module_structure_agent" -> Truthy(research_findings)
      [] pc = "xdp_agent" -> Truthy(module_structure)
      [] pc = "course_content_agent" ->
            Truthy(module_structure) /\ all_lessons(module_structure) # <<>>
      [] pc = "quiz_curator_agent" ->
            /\ Truthy(module_structure)
            /\ course_content # <<>>
            /\ quiz_tasks(module_structure) # <<>>
      [] pc = "finalize_course" -> TRUE
      [] OTHER -> FALSE

\* Every call of a collaborator returns: a stage that reaches its calls does
\* not end in its handler.
CollaboratorsReturn == StageReachesItsCalls => errors' = errors

\* The decision the human gives is an approval.
HumanApproves == hist'.last.decision.approval_status = "True"

\* The chain answers every request with what was asked for: a structure with
\* no modules (replaced by the fallback) or with the requested modules and a
\* lesson in each, a lesson for every lesson of a batch, a quiz for every task.
ValidAnswers ==
    CASE pc = "module_structure_agent" ->
            module_structure' \in
               {FallbackStructure,
                LLMStructure([i \in 1..Parameters.number_of_modules |-> 1])}
      [] pc = "course_content_agent" ->
            course_content' = ContentOf(module_structure)
      [] pc = "quiz_curator_agent" ->
            quiz_tasks(module_structure) # <<>> =>
               quizzes' = QuizzesOf(module_structure)
      [] OTHER -> TRUE

NextApproved ==
    \/ collect_user_input
    \/ researcher_agent /\ CollaboratorsReturn
    \/ module_structure_agent /\ CollaboratorsReturn
    \/ validate_module_structure_node
    \/ \E checkpoint \in Checkpoints : human_review(checkpoint)
    \/ \E checkpoint \in Checkpoints : receive_feedback(checkpoint) /\ HumanApproves
    \/ Resume
    \/ xdp_agent /\ CollaboratorsReturn
    \/ course_content_agent /\ CollaboratorsReturn
    \/ validate_content_node
    \/ quiz_curator_agent /\ CollaboratorsReturn
    \/ validate_quizzes_node
    \/ finalize_course /\ CollaboratorsReturn

\* The graph runs the next node, the caller resumes an interrupted run and
\* the human answers a review: no enabled step is put off for ever.
SpecApproved == InitRequests /\ [][NextApproved]_vars /\ WF_vars(NextApproved)

NextEndToEnd ==
    \/ collect_user_input
    \/ researcher_agent /\ CollaboratorsReturn
    \/ module_structure_agent /\ CollaboratorsReturn /\ ValidAnswers
    \/ validate_module_structure_node
    \/ \E checkpoint \in Checkpoints : human_review(checkpoint)
    \/ \E checkpoint \in Checkpoints : receive_feedback(checkpoint) /\ HumanApproves
    \/ Resume
    \/ xdp_agent /\ CollaboratorsReturn
    \/ course_content_agent /\ CollaboratorsReturn /\ ValidAnswers
    \/ validate_content_node
    \/ quiz_curator_agent /\ CollaboratorsReturn /\ ValidAnswers
    \/ validate_quizzes_node
    \/ finalize_course /\ CollaboratorsReturn

SpecEndToEnd == InitRequests /\ [][NextEndToEnd]_vars /\ WF_vars(NextEndToEnd)

\* The course asked for in the end-to-end run: 3 modules, 1 graded and 1
\* practice quiz per module, no lab module.
ThreeModuleRequest == CourseRequest(3, 1, 1, FALSE)

QuizzesOfType(quizList, quiz_type) ==
    Cardinality({k \in DOMAIN quizList : quizList[k].quiz_type = quiz_type})

\* C31: with 3 modules, 1 graded and 1 practice quiz per module and no lab
\* module requested, valid answers of the collaborator and every review
\* approved, the run reaches the end through finalize_course, and the
\* finalized course has 3 modules, 6 quizzes (3 graded, 3 practice), every
\* quiz listed under the module it belongs to, and its course_info.
ThreeModuleCourseFinalized ==
    /\ [](( /\ request = ThreeModuleRequest
            /\ prev = "finalize_course") =>
            LET course == course_metadata.complete_structure
            IN  /\ pc = "END"
                /\ current_step = <<"course", "finalized">>
                /\ course.course_info.number_of_modules = 3
                /\ Len(course.modules) = 3
                /\ Len(course.quizzes) = 6
                /\ QuizzesOfType(course.quizzes, "graded") = 3
                /\ QuizzesOfType(course.quizzes, "practice") = 3
                /\ \A k \in DOMAIN course.quizzes :
                      \E i \in DOMAIN course.modules :
                         /\ course.modules[i].module_id = course.quizzes[k].module_id
                         /\ \E j \in DOMAIN course.modules[i].quizzes :
                               course.modules[i].quizzes[j] = course.quizzes[k]
                /\ \A i \in DOMAIN course.modules :
                      /\ Len(course.modules[i].quizzes) = 2
                      /\ \A j \in DOMAIN course.modules[i].quizzes :
                            course.modules[i].quizzes[j].module_id =
                               course.modules[i].module_id)
    /\ (request = ThreeModuleRequest) ~> (prev = "finalize_course" /\ pc = "END")

\* The run for three modules ended with its six quizzes after the quizzes had
\* been reviewed and approved.
ThreeModuleRunEnded ==
    /\ request = ThreeModuleRequest
    /\ pc = "END"
    /\ prev = "finalize_course"
    /\ Len(course_metadata.complete_structure.modules) = 3
    /\ Len(quizzes) = 6
    /\ approval_status.quizzes = "True"

\* The nodes of the graph in the order of its forward edges.
NodeOrder ==
    <<"collect_user_input", "researcher_agent", "module_structure_agent",
      "validate_module_structure", "human_review_structure", "xdp_agent",
      "course_content_agent", "validate_content", "human_review_content",
      "quiz_curator_agent", "validate_quizzes", "human_review_quizzes",
      "finalize_course", "END">>

NodeRank(node) == CHOOSE i \in DOMAIN NodeOrder : NodeOrder[i] = node

\* The run cannot go on only because the model bounds the length of errors.
ErrorBoundReached == Len(errors) = MaxErrors /\ ~ENABLED NextApproved

====
